---- MODULE Spec2Model ----
(***************************************************************************)
(* Model of the pattern-detection module of Pattern Detector V8            *)
(* (src/pattern_detectors.py): the MACD computation, the volume analyzer,  *)
(* the four pattern detectors and the dispatcher detect_pattern.           *)
(*                                                                         *)
(* Number representation.  Prices and volumes are integers.  Every         *)
(* comparison the code makes on a ratio is made here on the exact          *)
(* rational, by cross-multiplication (thresholds are in permille).         *)
(* The running `confidence` is an integer count of 1/ConfUnit points, a    *)
(* unit fine enough that every product the code forms (x0.5, x0.7, x0.8,   *)
(* x0.67, x0.75, x1.05, x1.1) is exact.  Binary floating-point rounding    *)
(* is not modelled.  The exponentially weighted means are computed in      *)
(* fixed point (EwmUnit).                                                  *)
(***************************************************************************)
EXTENDS Integers, Sequences, FiniteSets, TLC

VARIABLES data, cfg, ind, call, ret, stages, memo, run

vars == <<data, cfg, ind, call, ret, stages, memo, run>>

\* one confidence point, in model units
ConfUnit == 10000
\* fixed-point unit of the exponentially weighted means
EwmUnit == 1000
\* longest series of the model
MaxLen == 60

Pts(p) == p * ConfUnit

Min2(a, b) == IF a <= b THEN a ELSE b
Max2(a, b) == IF a >= b THEN a ELSE b
Abs(a) == IF a < 0 THEN -a ELSE a

\* floor(x * a / b) without forming x * a
MulDiv(x, a, b) == (x \div b) * a + ((x % b) * a) \div b

(***************************************************************************)
(* pattern_info / volume_info: a dict, modelled as a function from fact    *)
(* names to values.                                                        *)
(***************************************************************************)
NoInfo == [x \in {} |-> TRUE]
Put(info, k, v) == [x \in (DOMAIN info) \cup {k} |-> IF x = k THEN v ELSE info[x]]
Update(info, other) ==
    [x \in (DOMAIN info) \cup (DOMAIN other) |->
        IF x \in DOMAIN other THEN other[x] ELSE info[x]]
\* dict.get(k) used as a truth value
Get(info, k) == IF k \in DOMAIN info THEN info[k] = TRUE ELSE FALSE

\* a float quotient num/den; den = 0 is the nan/inf numpy yields
Frac(n, d) == [num |-> n, den |-> d]
\* f >= t/1000, f < t/1000 (both false on nan)
FracGE(f, t) == f.den > 0 /\ f.num * 1000 >= t * f.den
FracLT(f, t) == f.den > 0 /\ f.num * 1000 < t * f.den
\* f"{x:.1f}": x to one decimal, as a number of tenths (round half even)
Fmt1(n, d) ==
    IF d = 0 THEN "nan"
    ELSE LET q == (n * 10) \div d
             r == (n * 10) % d
         IN  IF 2 * r > d THEN q + 1
             ELSE IF 2 * r = d THEN q + (q % 2)
             ELSE q
\* f"{x*100:.1f}%": tenths of a percent
FmtPct(n, d) == Fmt1(n * 100, d)

(***************************************************************************)
(* Series access.  data is a sequence of bars; At(d, k) is data.iloc[k]    *)
(* for a negative offset k; windows are given by their first and last      *)
(* 1-based index.                                                          *)
(***************************************************************************)
At(d, k) == d[Len(d) + k + 1]
InRange(d, k) == Len(d) + k + 1 >= 1 /\ Len(d) + k + 1 <= Len(d)

RECURSIVE SumVol(_, _, _)
SumVol(d, lo, hi) ==
    IF lo > hi THEN 0
    ELSE IF lo = hi THEN d[lo].Volume
    ELSE SumVol(d, lo, (lo + hi) \div 2) + SumVol(d, (lo + hi) \div 2 + 1, hi)

RECURSIVE MaxHigh(_, _, _)
MaxHigh(d, lo, hi) ==
    IF lo = hi THEN d[lo].High
    ELSE Max2(MaxHigh(d, lo, (lo + hi) \div 2), MaxHigh(d, (lo + hi) \div 2 + 1, hi))

RECURSIVE MinLow(_, _, _)
MinLow(d, lo, hi) ==
    IF lo = hi THEN d[lo].Low
    ELSE Min2(MinLow(d, lo, (lo + hi) \div 2), MinLow(d, (lo + hi) \div 2 + 1, hi))

(***************************************************************************)
(* Configuration (config.py): thresholds in permille, score points and     *)
(* bonuses in whole points.                                                *)
(***************************************************************************)
Config1 ==
    [ PATTERN_THRESHOLDS |->
        [ FlatTop   |-> [min_initial_gain |-> 100, min_pullback |-> 80,
                         resistance_tolerance |-> 980],
          BullFlag  |-> [min_flagpole_gain |-> 80, pullback_lo |-> -150,
                         pullback_hi |-> 50, flag_tolerance |-> 950],
          CupHandle |-> [min_cup_depth |-> 80, max_cup_depth |-> 300,
                         max_handle_depth |-> 250],
          InsideBar |-> [tight_consolidation |-> 300, good_consolidation |-> 500,
                         moderate_consolidation |-> 700,
                         tight_consolidation_weekly |-> 350,
                         good_consolidation_weekly |-> 550,
                         moderate_consolidation_weekly |-> 750] ],
      VOLUME_THRESHOLDS |-> [good |-> 1300, strong |-> 1500, exceptional |-> 2000],
      VOLUME_SCORE_POINTS |-> [good |-> 10, strong |-> 20, exceptional |-> 25],
      PATTERN_VOLUME_BONUS |-> [BullFlag |-> 15, CupHandle |-> 20,
                                FlatTop |-> 20, InsideBar |-> 10],
      MAX_CONFIDENCE_WITHOUT_VOLUME |-> 70,
      PATTERN_AGE_LIMITS |-> [BullFlag |-> 10, FlatTop |-> 8] ]

Config2 ==
    [ Config1 EXCEPT !.MAX_CONFIDENCE_WITHOUT_VOLUME = 50,
                     !.PATTERN_VOLUME_BONUS = [BullFlag |-> 11, CupHandle |-> 15,
                                               FlatTop |-> 15, InsideBar |-> 5],
                     !.PATTERN_AGE_LIMITS = [BullFlag |-> 12, FlatTop |-> 12] ]

Configs == {Config1, Config2}


(***************************************************************************)
(* MACD components, detect_pattern lines 559-564.                          *)
(* Series.ewm(span=s).mean() (pandas default adjust=True):                 *)
(*   y[t] = sum_i (1-a)^i x[t-i] / sum_i (1-a)^i,  a = 2/(s+1),            *)
(* so 1-a = (s-1)/(s+1).  Numerator and denominator are carried in         *)
(* fixed point.                                                            *)
(***************************************************************************)
\* one more value xt: st carries the weighted sum, the sum of the weights
\* and the means so far
EwmStep(st, xt, span) ==
    LET n2 == xt * EwmUnit + MulDiv(st.num, span - 1, span + 1)
        d2 == EwmUnit + MulDiv(st.den, span - 1, span + 1)
    IN  [num |-> n2, den |-> d2, acc |-> Append(st.acc, n2 \div d2)]

\* the values x[lo..hi] in order, one half of the range after the other
\* (the test on the weights of the first half, which are positive, makes it
\* be evaluated before the second half starts)
RECURSIVE EwmFrom(_, _, _, _, _)
EwmFrom(x, span, lo, hi, st) ==
    IF lo > hi THEN st
    ELSE IF lo = hi THEN EwmStep(st, x[lo], span)
    ELSE LET first == EwmFrom(x, span, lo, (lo + hi) \div 2, st)
         IN  IF first.den > 0
             THEN EwmFrom(x, span, (lo + hi) \div 2 + 1, hi, first)
             ELSE first

ewm_mean(x, span) ==
    EwmFrom(x, span, 1, Len(x), [num |-> 0, den |-> 0, acc |-> << >>]).acc

\* the Close column, in 1/EwmUnit price units
CloseSeries(d) == [t \in 1..Len(d) |-> d[t].Close * EwmUnit]

MACD(d) ==
    LET close == CloseSeries(d)
        ema_fast == ewm_mean(close, 12)
        ema_slow == ewm_mean(close, 26)
        macd_line == [t \in 1..Len(d) |-> ema_fast[t] - ema_slow[t]]
        signal_line == ewm_mean(macd_line, 9)
        histogram == [t \in 1..Len(d) |-> macd_line[t] - signal_line[t]]
    IN  [macd_line |-> macd_line, signal_line |-> signal_line, histogram |-> histogram]

\* the two momentum tests the detectors make on the indicator series
MacdBullish(m) == m.macd_line[Len(m.macd_line)] > m.signal_line[Len(m.signal_line)]
HistRising(m) == m.histogram[Len(m.histogram)] > m.histogram[Len(m.histogram) - 2]

\* a slip that lets a series one bar too short through
TooShortOffByOne(d, k) == Len(d) < k - 1

\* the length guards (lines 16, 134, 302, 380, 457, 556)
TooShort(d, k) == Len(d) < k

(***************************************************************************)
(* analyze_volume_pattern, lines 11-127.                                   *)
(***************************************************************************)
\* a slip that makes the tier thresholds exclusive
VolumeTierStrict(c, vm) ==
    IF vm.den > 0 /\ vm.num * 1000 > c.VOLUME_THRESHOLDS.exceptional * vm.den
    THEN "exceptional"
    ELSE IF vm.den > 0 /\ vm.num * 1000 > c.VOLUME_THRESHOLDS.strong * vm.den
    THEN "strong"
    ELSE IF vm.den > 0 /\ vm.num * 1000 > c.VOLUME_THRESHOLDS.good * vm.den
    THEN "good"
    ELSE "weak"

\* lines 31-46: the tier of volume_multiplier = vm
VolumeTier(c, vm) ==
    IF FracGE(vm, c.VOLUME_THRESHOLDS.exceptional) THEN "exceptional"
    ELSE IF FracGE(vm, c.VOLUME_THRESHOLDS.strong) THEN "strong"
    ELSE IF FracGE(vm, c.VOLUME_THRESHOLDS.good) THEN "good"
    ELSE "weak"

TierPoints(c, tier) ==
    IF tier = "weak" THEN 0 ELSE Pts(c.VOLUME_SCORE_POINTS[tier])

TierStatus(tier) ==
    CASE tier = "exceptional" -> "Exceptional Volume"
      [] tier = "strong" -> "Strong Volume"
      [] tier = "good" -> "Good Volume"
      [] OTHER -> "Weak Volume"

TierFlag(tier) ==
    CASE tier = "exceptional" -> "exceptional_volume"
      [] tier = "strong" -> "strong_volume"
      [] tier = "good" -> "good_volume"
      [] OTHER -> "weak_volume"

\* a slip that evaluates the flagpole bonus whatever the passed fact map holds
VolumeBullFlagUnguarded(c, d, pattern_info) ==
    LET n == Len(d)
        flagpole_start == Min2(25, n - 10)
        cnt == IF flagpole_start > 15 THEN flagpole_start - 15 ELSE 0
        s1 == SumVol(d, n - flagpole_start + 1, n - 15)
        s2 == SumVol(d, n - 14, n)
        ratio == Frac(s1 * 15, s2 * cnt)
    IN  IF cnt > 0 /\ s1 * 15 * 10 > s2 * 12 * cnt
        THEN [score |-> Pts(c.PATTERN_VOLUME_BONUS.BullFlag),
              info |-> [flagpole_volume_pattern |-> TRUE, flagpole_vol_ratio |-> ratio]]
        ELSE IF cnt > 0 /\ s1 * 15 * 10 > s2 * 11 * cnt
        THEN [score |-> Pts(c.PATTERN_VOLUME_BONUS.BullFlag \div 2),
              info |-> [moderate_flagpole_volume |-> TRUE, flagpole_vol_ratio |-> ratio]]
        ELSE [score |-> 0, info |-> NoInfo]

\* lines 49-67
VolumeBullFlag(c, d, pattern_info) ==
    IF "flagpole_gain" \notin DOMAIN pattern_info
    THEN [score |-> 0, info |-> NoInfo]
    ELSE LET n == Len(d)
             flagpole_start == Min2(25, n - 10)
             flagpole_end == 15
             cnt == IF flagpole_start > flagpole_end
                    THEN flagpole_start - flagpole_end ELSE 0
             s1 == SumVol(d, n - flagpole_start + 1, n - flagpole_end)
             s2 == SumVol(d, n - 14, n)
             ratio == Frac(s1 * 15, s2 * cnt)
         IN  IF cnt > 0 /\ s1 * 15 * 10 > s2 * 12 * cnt
             THEN [score |-> Pts(c.PATTERN_VOLUME_BONUS.BullFlag),
                   info |-> [flagpole_volume_pattern |-> TRUE,
                             flagpole_vol_ratio |-> ratio]]
             ELSE IF cnt > 0 /\ s1 * 15 * 10 > s2 * 11 * cnt
             THEN [score |-> Pts(c.PATTERN_VOLUME_BONUS.BullFlag \div 2),
                   info |-> [moderate_flagpole_volume |-> TRUE,
                             flagpole_vol_ratio |-> ratio]]
             ELSE [score |-> 0, info |-> NoInfo]

\* lines 69-89
VolumeCupHandle(c, d) ==
    LET n == Len(d)
        handle_days == Min2(30, n \div 3)
        cup_len == n - handle_days
        sc == SumVol(d, 1, cup_len)
        sh == SumVol(d, cup_len + 1, n)
        ratio == Frac(sh * cup_len, sc * handle_days)
    IN  IF handle_days > 5 /\ cup_len > 10
        THEN IF sh * cup_len * 100 < sc * 80 * handle_days
             THEN [score |-> Pts(c.PATTERN_VOLUME_BONUS.CupHandle),
                   info |-> [significant_volume_dryup |-> TRUE,
                             handle_vol_ratio |-> ratio]]
             ELSE IF sh * cup_len * 100 < sc * 90 * handle_days
             THEN [score |-> (Pts(c.PATTERN_VOLUME_BONUS.CupHandle) * 75) \div 100,
                   info |-> [moderate_volume_dryup |-> TRUE,
                             handle_vol_ratio |-> ratio]]
             ELSE [score |-> 0, info |-> NoInfo]
        ELSE [score |-> 0, info |-> NoInfo]

\* lines 91-102
VolumeFlatTop(c, d) ==
    LET n == Len(d)
        sum20 == SumVol(d, n - 19, n)
        cur == d[n].Volume
        ratio == Frac(cur * 20, sum20)
    IN  IF cur * 20 * 10 > sum20 * 14
        THEN [score |-> Pts(c.PATTERN_VOLUME_BONUS.FlatTop),
              info |-> [breakout_volume_surge |-> TRUE, resistance_vol_ratio |-> ratio]]
        ELSE IF cur * 20 * 10 > sum20 * 12
        THEN [score |-> (Pts(c.PATTERN_VOLUME_BONUS.FlatTop) * 75) \div 100,
              info |-> [moderate_breakout_volume |-> TRUE,
                        resistance_vol_ratio |-> ratio]]
        ELSE [score |-> 0, info |-> NoInfo]

\* a slip that makes the quiet bonus an `if` of its own (if for elif)
VolumeInsideBarNoElse(c, vm) ==
    LET consolidation ==
            IF FracLT(vm, 800)
            THEN [score |-> Pts(c.PATTERN_VOLUME_BONUS.InsideBar),
                  info |-> [consolidation_volume |-> TRUE]]
            ELSE [score |-> 0, info |-> NoInfo]
        quiet ==
            IF FracLT(vm, 1000)
            THEN [score |-> consolidation.score
                              + (Pts(c.PATTERN_VOLUME_BONUS.InsideBar) * 67) \div 100,
                  info |-> Put(consolidation.info, "quiet_consolidation", TRUE)]
            ELSE consolidation
    IN  IF FracGE(vm, 1500)
        THEN [score |-> quiet.score + Pts(c.PATTERN_VOLUME_BONUS.InsideBar),
              info |-> Put(quiet.info, "breakout_volume_expansion", TRUE)]
        ELSE quiet

\* lines 104-116
VolumeInsideBar(c, vm) ==
    LET quiet ==
            IF FracLT(vm, 800)
            THEN [score |-> Pts(c.PATTERN_VOLUME_BONUS.InsideBar),
                  info |-> [consolidation_volume |-> TRUE]]
            ELSE IF FracLT(vm, 1000)
            THEN [score |-> (Pts(c.PATTERN_VOLUME_BONUS.InsideBar) * 67) \div 100,
                  info |-> [quiet_consolidation |-> TRUE]]
            ELSE [score |-> 0, info |-> NoInfo]
    IN  IF FracGE(vm, 1500)
        THEN [score |-> quiet.score + Pts(c.PATTERN_VOLUME_BONUS.InsideBar),
              info |-> Put(quiet.info, "breakout_volume_expansion", TRUE)]
        ELSE quiet

\* lines 118-125: volume_trend = mean(tail 5) / mean(tail 20)
VolumeTrend(sum5, sum20) ==
    IF sum20 > 0 /\ 40 * sum5 > 11 * sum20
    THEN [score |-> Pts(5), info |-> [increasing_volume_trend |-> TRUE]]
    ELSE IF sum20 > 0 /\ 40 * sum5 < 9 * sum20
    THEN [score |-> Pts(5), info |-> [decreasing_volume_trend |-> TRUE]]
    ELSE [score |-> 0, info |-> NoInfo]

analyze_volume_pattern(c, d, pattern_type, pattern_info) ==
    IF TooShort(d, 20) THEN [volume_score |-> 0, tier_score |-> 0, volume_info |-> NoInfo]
    ELSE
    LET n == Len(d)
        sum20 == SumVol(d, n - 19, n)
        current_volume == d[n].Volume
        sum5 == SumVol(d, n - 4, n)
        volume_multiplier == Frac(current_volume * 20, sum20)
        recent_multiplier == Frac(sum5 * 4, sum20)
        tier == VolumeTier(c, volume_multiplier)
        base == [avg_volume_20 |-> Frac(sum20, 20),
                 current_volume |-> current_volume,
                 volume_multiplier |-> volume_multiplier,
                 recent_multiplier |-> recent_multiplier,
                 volume_status |-> <<TierStatus(tier),
                                     Fmt1(volume_multiplier.num, volume_multiplier.den)>>]
        tiered == Put(base, TierFlag(tier), TRUE)
        specific ==
            CASE pattern_type = "Bull Flag" -> VolumeBullFlag(c, d, pattern_info)
              [] pattern_type = "Cup Handle" -> VolumeCupHandle(c, d)
              [] pattern_type = "Flat Top Breakout" -> VolumeFlatTop(c, d)
              [] pattern_type = "Inside Bar" -> VolumeInsideBar(c, volume_multiplier)
              [] OTHER -> [score |-> 0, info |-> NoInfo]
        trend == VolumeTrend(sum5, sum20)
    IN  [volume_score |-> TierPoints(c, tier) + specific.score + trend.score,
         tier_score |-> TierPoints(c, tier),
         volume_info |-> Update(Update(tiered, specific.info), trend.info)]

\* lines 284 / 369 / 446 / 548: some volume confirmation flag is set
VolumeConfirmed(volume_info) ==
    Get(volume_info, "good_volume") \/ Get(volume_info, "strong_volume")
        \/ Get(volume_info, "exceptional_volume")


\* a slip that records the cap without applying it
ApplyCapRecordOnly(c, acc, volume_info) ==
    IF ~VolumeConfirmed(volume_info)
    THEN [confidence |-> acc.confidence,
          pattern_info |-> Put(acc.pattern_info, "confidence_capped",
                               "No volume confirmation")]
    ELSE acc

\* a slip that applies the ceiling whatever the volume flags
ApplyCapAlways(c, acc, volume_info) ==
    [confidence |-> Min2(acc.confidence, Pts(c.MAX_CONFIDENCE_WITHOUT_VOLUME)),
     pattern_info |-> IF ~VolumeConfirmed(volume_info)
                      THEN Put(acc.pattern_info, "confidence_capped",
                               "No volume confirmation")
                      ELSE acc.pattern_info]

\* the volume confirmation cap, lines 283-286 / 368-371 / 445-448 / 547-550
ApplyCap(c, acc, volume_info) ==
    IF ~VolumeConfirmed(volume_info)
    THEN [confidence |-> Min2(acc.confidence, Pts(c.MAX_CONFIDENCE_WITHOUT_VOLUME)),
          pattern_info |-> Put(acc.pattern_info, "confidence_capped",
                               "No volume confirmation")]
    ELSE acc

\* confidence += p; pattern_info[k] = v
Award(acc, p, k, v) ==
    [confidence |-> acc.confidence + Pts(p), pattern_info |-> Put(acc.pattern_info, k, v)]

\* lines 278-281 / 363-366 / 435-438 / 539-542
AddVolume(acc, vol) ==
    [confidence |-> acc.confidence + vol.volume_score,
     pattern_info |-> Update(acc.pattern_info, vol.volume_info)]

\* next((i for i in range(1, 11) if ...), 11), hits the i in 1..10 that pass
\* the test (lines 350, 419)
FirstDay(hits) == IF hits = {} THEN 11 ELSE CHOOSE i \in hits : \A j \in hits : i <= j

(***************************************************************************)
(* detect_inside_bar, lines 129-295.                                       *)
(***************************************************************************)
IsWeekly(timeframe) == timeframe = "1wk"

\* a slip that leaves the colour of the mother bar unchecked
QualifiesAnyMother(d, i) ==
    /\ At(d, i).High < At(d, i - 1).High
    /\ At(d, i).Low > At(d, i - 1).Low
    /\ At(d, i).Close < At(d, i).Open

\* lines 158-168: the bar at offset i qualifies as an inside bar
Qualifies(d, i) ==
    LET current_bar == At(d, i)
        previous_bar == At(d, i - 1)
        is_inside == /\ current_bar.High <= previous_bar.High
                     /\ current_bar.Low >= previous_bar.Low
                     /\ current_bar.High < previous_bar.High
                     /\ current_bar.Low > previous_bar.Low
        mother_is_green == previous_bar.Close > previous_bar.Open
        inside_is_red == current_bar.Close < current_bar.Open
    IN  is_inside /\ mother_is_green /\ inside_is_red

\* a slip that passes over a bar that does not qualify (continue for break)
RECURSIVE ScanFromSkipping(_, _, _, _)
ScanFromSkipping(d, i, last, st) ==
    IF i < last THEN st
    ELSE IF ~InRange(d, i) \/ ~InRange(d, i - 1) THEN st
    ELSE IF Qualifies(d, i)
    THEN IF st.inside_bars_count = 0
         THEN ScanFromSkipping(d, i - 1, last,
                       [mother_bar_idx |-> i - 1, inside_bars_count |-> 1,
                        inside_bar_indices |-> <<i>>])
         ELSE IF st.inside_bars_count = 1 /\ i = st.inside_bar_indices[1] - 1
         THEN [st EXCEPT !.inside_bars_count = 2,
                         !.inside_bar_indices = Append(@, i)]
         ELSE st
    ELSE ScanFromSkipping(d, i - 1, last, st)

\* lines 153-184: the backward scan from offset i down to offset last;
\* mother_bar_idx = 0 stands for None
RECURSIVE ScanFrom(_, _, _, _)
ScanFrom(d, i, last, st) ==
    IF i < last THEN st
    ELSE IF ~InRange(d, i) \/ ~InRange(d, i - 1) THEN st
    ELSE IF Qualifies(d, i)
    THEN IF st.inside_bars_count = 0
         THEN ScanFrom(d, i - 1, last,
                       [mother_bar_idx |-> i - 1, inside_bars_count |-> 1,
                        inside_bar_indices |-> <<i>>])
         ELSE IF st.inside_bars_count = 1 /\ i = st.inside_bar_indices[1] - 1
         THEN [st EXCEPT !.inside_bars_count = 2,
                         !.inside_bar_indices = Append(@, i)]
         ELSE st
    ELSE st

\* a slip that starts the scan at the bar before the latest
InsideBarScanFromSecond(d, timeframe) ==
    ScanFrom(d, -2, IF IsWeekly(timeframe) THEN -6 ELSE -4,
             [mother_bar_idx |-> 0, inside_bars_count |-> 0,
              inside_bar_indices |-> << >>])

InsideBarScan(d, timeframe) ==
    ScanFrom(d, -1, IF IsWeekly(timeframe) THEN -6 ELSE -4,
             [mother_bar_idx |-> 0, inside_bars_count |-> 0,
              inside_bar_indices |-> << >>])

\* a slip that swaps the two bonuses
SingleOrDoubleSwapped(acc, inside_bars_count) ==
    IF inside_bars_count = 1
    THEN Award(acc, 10, "single_inside_bar", TRUE)
    ELSE Award(acc, 15, "double_inside_bar", TRUE)

\* lines 217-223: a single inside bar is preferred over a double
SingleOrDouble(acc, inside_bars_count) ==
    IF inside_bars_count = 1
    THEN Award(acc, 15, "single_inside_bar", TRUE)
    ELSE Award(acc, 10, "double_inside_bar", TRUE)

\* lines 200-223: base confidence, colour bonus, single/double bonus
InsideBarFormation(d, scan, timeframe, info0) ==
    LET mother_bar == At(d, scan.mother_bar_idx)
        latest_inside_bar == At(d, scan.inside_bar_indices[1])
        base_confidence == IF IsWeekly(timeframe) THEN 35 ELSE 30
        info1 == Update(info0,
                   [mother_bar_high |-> mother_bar.High,
                    mother_bar_low |-> mother_bar.Low,
                    inside_bar_high |-> latest_inside_bar.High,
                    inside_bar_low |-> latest_inside_bar.Low,
                    inside_bars_count |-> scan.inside_bars_count,
                    color_validated |-> TRUE,
                    mother_bar_color |-> "Green",
                    inside_bar_color |-> "Red",
                    proper_color_combo |-> TRUE])
        acc == [confidence |-> Pts(base_confidence) + Pts(15), pattern_info |-> info1]
    IN  SingleOrDouble(acc, scan.inside_bars_count)

\* lines 225-249: size of the inside bar relative to the mother bar
InsideBarSize(c, d, scan, timeframe, acc) ==
    LET mother_bar == At(d, scan.mother_bar_idx)
        latest_inside_bar == At(d, scan.inside_bar_indices[1])
        mother_bar_range == mother_bar.High - mother_bar.Low
        inside_bar_range == latest_inside_bar.High - latest_inside_bar.Low
        thresholds == c.PATTERN_THRESHOLDS.InsideBar
        tight_threshold == IF IsWeekly(timeframe)
                           THEN thresholds.tight_consolidation_weekly
                           ELSE thresholds.tight_consolidation
        good_threshold == IF IsWeekly(timeframe)
                          THEN thresholds.good_consolidation_weekly
                          ELSE thresholds.good_consolidation
        moderate_threshold == IF IsWeekly(timeframe)
                              THEN thresholds.moderate_consolidation_weekly
                              ELSE thresholds.moderate_consolidation
        sized == [acc EXCEPT !.pattern_info =
                     Put(@, "size_ratio", FmtPct(inside_bar_range, mother_bar_range))]
    IN  IF mother_bar_range > 0
        THEN IF inside_bar_range * 1000 < tight_threshold * mother_bar_range
             THEN Award(sized, 20, "tight_consolidation", TRUE)
             ELSE IF inside_bar_range * 1000 < good_threshold * mother_bar_range
             THEN Award(sized, 15, "good_consolidation", TRUE)
             ELSE IF inside_bar_range * 1000 < moderate_threshold * mother_bar_range
             THEN Award(sized, 10, "moderate_consolidation", TRUE)
             ELSE [sized EXCEPT !.confidence = @ + Pts(5)]
        ELSE acc

\* lines 251-261: position of the inside bar within the mother bar
InsideBarPosition(d, scan, acc) ==
    LET mother_bar == At(d, scan.mother_bar_idx)
        latest_inside_bar == At(d, scan.inside_bar_indices[1])
        mother_bar_range == mother_bar.High - mother_bar.Low
        \* twice the distance of the two midpoints
        dist2 == Abs((latest_inside_bar.High + latest_inside_bar.Low)
                     - (mother_bar.High + mother_bar.Low))
        Below(pct) == IF mother_bar_range > 0
                      THEN dist2 * 100 < pct * 2 * mother_bar_range
                      ELSE mother_bar_range < 0
    IN  IF Below(25) THEN Award(acc, 10, "centered_inside_bar", TRUE)
        ELSE IF Below(35) THEN Award(acc, 5, "well_positioned", TRUE)
        ELSE acc

\* a slip that leaves out the price_in_range bonus
InsideBarTechnicalNoPriceBonus(d, m, scan, acc) ==
    LET a1 == IF MacdBullish(m) THEN Award(acc, 15, "macd_bullish", TRUE) ELSE acc
    IN  IF HistRising(m) THEN Award(a1, 10, "momentum_improving", TRUE) ELSE a1

\* lines 263-276: MACD confirmation and the price_in_range bonus
InsideBarTechnical(d, m, scan, acc) ==
    LET latest_inside_bar == At(d, scan.inside_bar_indices[1])
        current_price == At(d, -1).Close
        a1 == IF MacdBullish(m) THEN Award(acc, 15, "macd_bullish", TRUE) ELSE acc
        a2 == IF HistRising(m) THEN Award(a1, 10, "momentum_improving", TRUE) ELSE a1
    IN  IF current_price * 100 >= latest_inside_bar.Low * 98
        THEN Award(a2, 10, "price_in_range", TRUE)
        ELSE a2

\* a slip that measures the age from the other end (>= for <=)
InsideBarAgingReversed(scan, timeframe, acc) ==
    IF scan.mother_bar_idx >= (IF IsWeekly(timeframe) THEN -8 ELSE -6)
    THEN [confidence |-> IF IsWeekly(timeframe)
                         THEN (acc.confidence * 7) \div 10
                         ELSE (acc.confidence * 8) \div 10,
          pattern_info |-> Update(acc.pattern_info,
                             [pattern_aging |-> TRUE,
                              age_periods |-> Abs(scan.mother_bar_idx)])]
    ELSE acc

\* lines 288-293: pattern age penalty
InsideBarAging(scan, timeframe, acc) ==
    LET aging_threshold == IF IsWeekly(timeframe) THEN -8 ELSE -6
    IN  IF scan.mother_bar_idx <= aging_threshold
        THEN [confidence |-> IF IsWeekly(timeframe)
                             THEN (acc.confidence * 7) \div 10
                             ELSE (acc.confidence * 8) \div 10,
              pattern_info |-> Update(acc.pattern_info,
                                 [pattern_aging |-> TRUE,
                                  age_periods |-> Abs(scan.mother_bar_idx)])]
        ELSE acc

\* the value of `confidence` at a program point of the last call
NoStages == [x \in {} |-> 0]

Result(conf, info, st) == [confidence |-> conf, pattern_info |-> info, stages |-> st]

\* the names of the facts the call had recorded in its pattern_info at a point
Recorded(st, info) == Put(st, "recorded", DOMAIN info)

\* a slip that records the timeframe label only once a pattern is scored
NoTimeframeFacts(timeframe) == NoInfo

\* lines 138-145: the timeframe label, recorded before the scan
TimeframeFacts(timeframe) ==
    [timeframe |-> IF IsWeekly(timeframe) THEN "Weekly" ELSE "Daily"]

detect_inside_bar(c, d, m, timeframe) ==
    IF TooShort(d, 5) THEN Result(0, NoInfo, NoStages)
    ELSE
    LET info0 == TimeframeFacts(timeframe)
        scan == InsideBarScan(d, timeframe)
    IN  IF scan.inside_bars_count = 0
        THEN Result(0, info0, Recorded(NoStages, info0))
        ELSE
        LET mother_bar == At(d, scan.mother_bar_idx)
            latest_inside_bar == At(d, scan.inside_bar_indices[1])
            formed == InsideBarFormation(d, scan, timeframe, info0)
            sized == InsideBarSize(c, d, scan, timeframe, formed)
            placed == InsideBarPosition(d, scan, sized)
            tech == InsideBarTechnical(d, m, scan, placed)
            vol == analyze_volume_pattern(c, d, "Inside Bar", tech.pattern_info)
            withvol == AddVolume(tech, vol)
            capped == ApplyCap(c, withvol, vol.volume_info)
            aged == InsideBarAging(scan, timeframe, capped)
        IN  IF ~(mother_bar.Close > mother_bar.Open
                 /\ latest_inside_bar.Close < latest_inside_bar.Open)
            THEN Result(0, info0, Recorded(NoStages, info0))
            ELSE Result(aged.confidence, aged.pattern_info,
                        Recorded([formation |-> formed.confidence,
                                  before_volume |-> tech.confidence,
                                  after_volume |-> withvol.confidence,
                                  capped |-> capped.confidence],
                                 tech.pattern_info))


(***************************************************************************)
(* detect_flat_top, lines 297-373.                                         *)
(***************************************************************************)
\* line 342: bars of the trailing 20 whose High reaches the resistance
RECURSIVE Touches(_, _, _, _, _)
Touches(d, lo, hi, level, tol) ==
    IF lo > hi THEN 0
    ELSE (IF d[hi].High * 1000 >= level * tol THEN 1 ELSE 0)
             + Touches(d, lo, hi - 1, level, tol)

\* a slip that flags the stale pattern without halving its confidence
FlatTopStaleNoPenalty(c, acc, days_old, current_price, descent_low) ==
    IF days_old > c.PATTERN_AGE_LIMITS.FlatTop
    THEN [kind |-> "stale",
          confidence |-> acc.confidence,
          pattern_info |-> Update(acc.pattern_info,
                             [pattern_stale |-> TRUE, days_old |-> days_old])]
    ELSE IF current_price * 100 < descent_low * 95
    THEN [kind |-> "broken", confidence |-> 0,
          pattern_info |-> [pattern_broken |-> TRUE, break_reason |-> "Below support"]]
    ELSE [kind |-> "go", confidence |-> acc.confidence,
          pattern_info |-> acc.pattern_info]

\* a slip that returns a fresh map on the stale path too
FlatTopStaleFreshMap(c, acc, days_old, current_price, descent_low) ==
    IF days_old > c.PATTERN_AGE_LIMITS.FlatTop
    THEN [kind |-> "stale",
          confidence |-> acc.confidence \div 2,
          pattern_info |-> [pattern_stale |-> TRUE, days_old |-> days_old]]
    ELSE IF current_price * 100 < descent_low * 95
    THEN [kind |-> "broken", confidence |-> 0,
          pattern_info |-> [pattern_broken |-> TRUE, break_reason |-> "Below support"]]
    ELSE [kind |-> "go", confidence |-> acc.confidence,
          pattern_info |-> acc.pattern_info]

\* a slip that makes the break check before the staleness check
FlatTopBreakBeforeAge(c, acc, days_old, current_price, descent_low) ==
    IF current_price * 100 < descent_low * 95
    THEN [kind |-> "broken", confidence |-> 0,
          pattern_info |-> [pattern_broken |-> TRUE, break_reason |-> "Below support"]]
    ELSE IF days_old > c.PATTERN_AGE_LIMITS.FlatTop
    THEN [kind |-> "stale",
          confidence |-> acc.confidence \div 2,
          pattern_info |-> Update(acc.pattern_info,
                             [pattern_stale |-> TRUE, days_old |-> days_old])]
    ELSE [kind |-> "go", confidence |-> acc.confidence,
          pattern_info |-> acc.pattern_info]

\* lines 348-356: staleness, then the break check; "go" lets the call continue
FlatTopAgeAndBreak(c, acc, days_old, current_price, descent_low) ==
    IF days_old > c.PATTERN_AGE_LIMITS.FlatTop
    THEN [kind |-> "stale",
          confidence |-> acc.confidence \div 2,
          pattern_info |-> Update(acc.pattern_info,
                             [pattern_stale |-> TRUE, days_old |-> days_old])]
    ELSE IF current_price * 100 < descent_low * 95
    THEN [kind |-> "broken", confidence |-> 0,
          pattern_info |-> [pattern_broken |-> TRUE, break_reason |-> "Below support"]]
    ELSE [kind |-> "go", confidence |-> acc.confidence,
          pattern_info |-> acc.pattern_info]

\* a slip that makes the insufficient pullback a hard rejection like the others
FlatTopHardReject(acc) == Result(0, NoInfo, NoStages)

\* line 325: the soft rejection returns what was accrued so far
FlatTopSoftReject(acc) ==
    Result(acc.confidence, acc.pattern_info,
           Recorded([ascent |-> acc.confidence], acc.pattern_info))

\* lines 320-325: the pullback is below the configured minimum
FlatTopPullbackTooSmall(c, peak_price, descent_low) ==
    (peak_price - descent_low) * 1000
        < c.PATTERN_THRESHOLDS.FlatTop.min_pullback * peak_price

detect_flat_top(c, d, m) ==
    IF TooShort(d, 50) THEN Result(0, NoInfo, NoStages)
    ELSE
    LET n == Len(d)
        thresholds == c.PATTERN_THRESHOLDS.FlatTop
        ascent_start == Min2(45, n - 15)
        ascent_end == 25
        start_price == At(d, -ascent_start).Close
        peak_price == MaxHigh(d, n - ascent_start + 1, n - ascent_end)
        a1 == [confidence |-> Pts(25),
               pattern_info |-> [initial_ascension |->
                                   FmtPct(peak_price - start_price, start_price)]]
        descent_low == MinLow(d, n - ascent_end + 1, n - 10)
        \* rolling(3, center=True).max() of the descent window: first and last value
        dh_first == MaxHigh(d, n - 24, n - 22)
        dh_last == MaxHigh(d, n - 12, n - 10)
        a2 == IF dh_last * 100 < dh_first * 97
              THEN Award(a1, 20, "descending_highs", TRUE) ELSE a1
        \* rolling(3, center=True).min() of the trailing 15 bars
        cl_first == MinLow(d, n - 14, n - 12)
        cl_last == MinLow(d, n - 2, n)
        a3 == IF cl_last * 100 > cl_first * 101
              THEN Award(a2, 25, "higher_lows", TRUE) ELSE a2
        resistance_level == peak_price
        touches == Touches(d, n - 19, n, resistance_level,
                           thresholds.resistance_tolerance)
        a4 == IF touches >= 2
              THEN [confidence |-> a3.confidence + Pts(15),
                    pattern_info |-> Update(a3.pattern_info,
                                       [resistance_level |-> resistance_level,
                                        resistance_touches |-> touches])]
              ELSE a3
        current_price == At(d, -1).Close
        days_old ==
            FirstDay({i \in 1..10 :
                At(d, -i).High * 1000
                    >= resistance_level * thresholds.resistance_tolerance})
        chk == FlatTopAgeAndBreak(c, a4, days_old, current_price, descent_low)
        a5 == IF MacdBullish(m) THEN Award(a4, 10, "macd_bullish", TRUE) ELSE a4
        vol == analyze_volume_pattern(c, d, "Flat Top Breakout", a5.pattern_info)
        withvol == AddVolume(a5, vol)
        capped == ApplyCap(c, withvol, vol.volume_info)
    IN  IF (peak_price - start_price) * 1000 < thresholds.min_initial_gain * start_price
        THEN Result(0, NoInfo, NoStages)
        ELSE IF FlatTopPullbackTooSmall(c, peak_price, descent_low)
        THEN FlatTopSoftReject(a1)
        ELSE IF chk.kind # "go"
        THEN Result(chk.confidence, chk.pattern_info,
                    Recorded([ascent |-> a1.confidence, before_age |-> a4.confidence],
                             a4.pattern_info))
        ELSE Result(capped.confidence, capped.pattern_info,
                    Recorded([ascent |-> a1.confidence, before_age |-> a4.confidence,
                              after_volume |-> withvol.confidence],
                             a5.pattern_info))

(***************************************************************************)
(* detect_bull_flag, lines 375-450.                                        *)
(***************************************************************************)
\* a slip that applies the tolerance to the wrong side of the support test
BullFlagInvalidationToleranceSwapped(c, current_price, flag_low, start_price) ==
    IF current_price * c.PATTERN_THRESHOLDS.BullFlag.flag_tolerance < flag_low * 1000
    THEN "Below flag support"
    ELSE IF current_price < start_price
    THEN "Below flagpole start"
    ELSE "none"

\* a slip that drops the second invalidation check
BullFlagSupportCheckOnly(c, current_price, flag_low, start_price) ==
    IF current_price * 1000 < flag_low * c.PATTERN_THRESHOLDS.BullFlag.flag_tolerance
    THEN "Below flag support"
    ELSE "none"

\* lines 409-415: the two invalidation checks, in the code's order
BullFlagInvalidation(c, current_price, flag_low, start_price) ==
    IF current_price * 1000 < flag_low * c.PATTERN_THRESHOLDS.BullFlag.flag_tolerance
    THEN "Below flag support"
    ELSE IF current_price < start_price
    THEN "Below flagpole start"
    ELSE "none"

\* lines 392-393: the flagpole gain is below the configured minimum
FlagpoleTooSmall(c, peak_price, start_price) ==
    (peak_price - start_price) * 1000
        < c.PATTERN_THRESHOLDS.BullFlag.min_flagpole_gain * start_price

detect_bull_flag(c, d, m) ==
    IF TooShort(d, 30) THEN Result(0, NoInfo, NoStages)
    ELSE
    LET n == Len(d)
        thresholds == c.PATTERN_THRESHOLDS.BullFlag
        flagpole_start == Min2(25, n - 10)
        flagpole_end == 15
        start_price == At(d, -flagpole_start).Close
        peak_price == MaxHigh(d, n - flagpole_start + 1, n - flagpole_end)
        a1 == [confidence |-> Pts(25),
               pattern_info |-> [flagpole_gain |->
                                   FmtPct(peak_price - start_price, start_price)]]
        flag_start == At(d, -flagpole_end).Close
        current_price == At(d, -1).Close
        a2 == IF /\ (current_price - flag_start) * 1000 >= thresholds.pullback_lo * flag_start
                 /\ (current_price - flag_start) * 1000 <= thresholds.pullback_hi * flag_start
              THEN [confidence |-> a1.confidence + Pts(20),
                    pattern_info |-> Update(a1.pattern_info,
                                       [flag_pullback |->
                                            FmtPct(current_price - flag_start, flag_start),
                                        healthy_pullback |-> TRUE])]
              ELSE a1
        flag_low == MinLow(d, n - 14, n)
        broken == BullFlagInvalidation(c, current_price, flag_low, start_price)
        flag_high == MaxHigh(d, n - 14, n)
        days_old == FirstDay({i \in 1..10 : At(d, -i).High = flag_high})
        a3 == [a2 EXCEPT !.pattern_info = Put(@, "days_since_high", days_old)]
        a4 == IF MacdBullish(m) THEN Award(a3, 15, "macd_bullish", TRUE) ELSE a3
        a5 == IF HistRising(m) THEN Award(a4, 10, "momentum_recovering", TRUE) ELSE a4
        vol == analyze_volume_pattern(c, d, "Bull Flag", a5.pattern_info)
        withvol == AddVolume(a5, vol)
        a6 == IF current_price * 100 >= flag_high * 95
              THEN Award(withvol, 10, "near_breakout", TRUE) ELSE withvol
        capped == ApplyCap(c, a6, vol.volume_info)
    IN  IF FlagpoleTooSmall(c, peak_price, start_price)
        THEN Result(0, NoInfo, NoStages)
        ELSE IF broken # "none"
        THEN Result(0, [pattern_broken |-> TRUE, break_reason |-> broken],
                    Recorded([flagpole |-> a1.confidence, pullback |-> a2.confidence],
                             a2.pattern_info))
        ELSE IF days_old > c.PATTERN_AGE_LIMITS.BullFlag
        THEN Result(a2.confidence \div 2,
                    Update(a2.pattern_info,
                           [pattern_stale |-> TRUE, days_old |-> days_old]),
                    Recorded([flagpole |-> a1.confidence, pullback |-> a2.confidence],
                             a2.pattern_info))
        ELSE Result(capped.confidence, capped.pattern_info,
                    Recorded([flagpole |-> a1.confidence, pullback |-> a2.confidence,
                              after_volume |-> withvol.confidence],
                             a5.pattern_info))


(***************************************************************************)
(* detect_cup_handle, lines 452-552.                                       *)
(***************************************************************************)
\* a slip that drops the upper end of the band
CupDepthBelowMin(c, rim, cup_bottom) ==
    (rim - cup_bottom) * 1000 < c.PATTERN_THRESHOLDS.CupHandle.min_cup_depth * rim

\* line 476: cup_depth = (rim - bottom) / rim lies outside the configured band
CupDepthOutOfBand(c, rim, cup_bottom) ==
    \/ (rim - cup_bottom) * 1000 < c.PATTERN_THRESHOLDS.CupHandle.min_cup_depth * rim
    \/ (rim - cup_bottom) * 1000 > c.PATTERN_THRESHOLDS.CupHandle.max_cup_depth * rim

\* a slip that drops the early exit, so that the cap applies to every result
CupNoEarlyExit(confidence) == FALSE

\* line 544: a confidence below 35 after the volume stage is returned as is
CupEarlyExit(confidence) == confidence < Pts(35)

\* lines 486-516: handle depth tiers and handle length adjustment
CupHandleAnalysis(c, acc, handle_days, cup_right, handle_low) ==
    IF handle_days > 0
    THEN LET hd == FmtPct(cup_right - handle_low, cup_right)
             depth == (cup_right - handle_low) * 1000
             a1 == IF depth > c.PATTERN_THRESHOLDS.CupHandle.max_handle_depth * cup_right
                   THEN Award(acc, 10, "deep_handle", hd)
                   ELSE IF depth <= 80 * cup_right
                   THEN Award(acc, 20, "perfect_handle", hd)
                   ELSE IF depth <= 150 * cup_right
                   THEN Award(acc, 15, "good_handle", hd)
                   ELSE Award(acc, 10, "acceptable_handle", hd)
         IN  IF handle_days > 25
             THEN [confidence |-> (a1.confidence * 8) \div 10,
                   pattern_info |-> Put(a1.pattern_info, "long_handle", handle_days)]
             ELSE IF handle_days <= 10
             THEN Award(a1, 10, "short_handle", handle_days)
             ELSE IF handle_days <= 20
             THEN Award(a1, 5, "medium_handle", handle_days)
             ELSE a1
    ELSE Award(acc, 10, "forming_handle", "Handle forming")

\* lines 518-532: position of the current price against the rim and the handle
CupPosition(acc, handle_days, current_price, breakout_level, handle_low) ==
    LET a1 == IF current_price * 100 < breakout_level * 70
              THEN [confidence |-> (acc.confidence * 7) \div 10,
                    pattern_info |-> Put(acc.pattern_info, "far_from_rim", TRUE)]
              ELSE [acc EXCEPT !.confidence = @ + Pts(5)]
    IN  IF handle_days > 0 /\ current_price * 100 < handle_low * 90
        THEN [confidence |-> (a1.confidence * 8) \div 10,
              pattern_info |-> Put(a1.pattern_info, "below_handle", TRUE)]
        ELSE a1

\* a slip that takes the handle length from the whole series, as the volume
\* analysis does (line 71), instead of from the lookback window
CupWindowsHandleFromLength(n) ==
    [max_lookback |-> Min2(100, n - 3),
     handle_days |-> Min2(30, n \div 3),
     cup_len |-> Min2(100, n - 3) - Min2(30, n \div 3)]

\* lines 462-466: the lookback window of a series of n bars, its trailing
\* handle_days bars (the handle) and the length of the rest (the cup)
CupWindows(n) ==
    LET max_lookback == Min2(100, n - 3)
        handle_days == Min2(30, max_lookback \div 3)
    IN  [max_lookback |-> max_lookback,
         handle_days |-> handle_days,
         cup_len |-> IF handle_days > 0 THEN max_lookback - handle_days
                     ELSE max_lookback]

detect_cup_handle(c, d, m) ==
    IF TooShort(d, 30) THEN Result(0, NoInfo, NoStages)
    ELSE
    LET n == Len(d)
        max_lookback == CupWindows(n).max_lookback
        handle_days == CupWindows(n).handle_days
        cup_lo == n - max_lookback + 1
        cup_hi == IF handle_days > 0 THEN n - handle_days ELSE n
        handle_lo == IF handle_days > 0 THEN n - handle_days + 1 ELSE n - 4
        cup_len == CupWindows(n).cup_len
        cup_start == d[cup_lo].Close
        cup_bottom == MinLow(d, cup_lo, cup_hi)
        cup_right == d[cup_hi].Close
        rim == Max2(cup_start, cup_right)
        a1 == [confidence |-> Pts(25),
               pattern_info |-> [cup_depth |-> FmtPct(rim - cup_bottom, rim)]]
        handle_low == MinLow(d, handle_lo, n)
        current_price == At(d, -1).Close
        a2 == CupHandleAnalysis(c, a1, handle_days, cup_right, handle_low)
        a3 == CupPosition(a2, handle_days, current_price, rim, handle_low)
        a4 == IF MacdBullish(m) THEN Award(a3, 10, "macd_bullish", TRUE) ELSE a3
        vol == analyze_volume_pattern(c, d, "Cup Handle", a4.pattern_info)
        withvol == AddVolume(a4, vol)
        capped == ApplyCap(c, withvol, vol.volume_info)
        st == Recorded([handle_days |-> handle_days, cup_len |-> cup_len,
                        base |-> a1.confidence, after_volume |-> withvol.confidence],
                       a4.pattern_info)
    IN  IF cup_len < 15 THEN Result(0, NoInfo, NoStages)
        ELSE IF CupDepthOutOfBand(c, rim, cup_bottom)
        THEN Result(0, NoInfo, NoStages)
        ELSE IF cup_right * 100 < cup_start * 75
        THEN Result(0, NoInfo, NoStages)
        ELSE IF CupEarlyExit(withvol.confidence)
        THEN Result(withvol.confidence, withvol.pattern_info, st)
        ELSE Result(capped.confidence, capped.pattern_info, st)

(***************************************************************************)
(* detect_pattern, lines 554-593.                                          *)
(***************************************************************************)
\* a slip that leaves out the clamp
RescaleNoClamp(pattern_type, confidence) ==
    CASE pattern_type = "Bull Flag" -> (confidence * 105) \div 100
      [] pattern_type = "Cup Handle" -> (confidence * 110) \div 100
      [] OTHER -> confidence

\* a slip that clamps before it rescales
RescaleClampFirst(pattern_type, confidence) ==
    CASE pattern_type = "Bull Flag" -> (Min2(confidence, Pts(100)) * 105) \div 100
      [] pattern_type = "Cup Handle" -> (Min2(confidence, Pts(100)) * 110) \div 100
      [] OTHER -> Min2(confidence, Pts(100))

\* lines 572, 576, 580, 584: rescaling, then the clamp
Rescale(pattern_type, confidence) ==
    CASE pattern_type = "Flat Top Breakout" -> Min2(confidence, Pts(100))
      [] pattern_type = "Bull Flag" -> Min2((confidence * 105) \div 100, Pts(100))
      [] pattern_type = "Cup Handle" -> Min2((confidence * 110) \div 100, Pts(100))
      [] pattern_type = "Inside Bar" -> Min2(confidence, Pts(100))
      [] OTHER -> confidence

\* a slip that makes the threshold exclusive
DetectedStrict(confidence) == confidence > Pts(55)

\* line 593: the boolean of the returned triple
Detected(confidence) == confidence >= Pts(55)

\* a slip that forgets one of the three series
AttachMacdNoHistogram(pattern_info, m) ==
    Update(pattern_info, [macd_line |-> m.macd_line, signal_line |-> m.signal_line])

\* lines 586-589
AttachMacd(pattern_info, m) ==
    Update(pattern_info, [macd_line |-> m.macd_line, signal_line |-> m.signal_line,
                          histogram |-> m.histogram])

\* line 557
GuardReturn == [detected |-> FALSE, confidence |-> 0, pattern_info |-> NoInfo,
                stages |-> NoStages]

\* lines 569-584: the call of the detector the pattern type names
Route(c, d, m, pattern_type, timeframe) ==
    CASE pattern_type = "Flat Top Breakout" -> detect_flat_top(c, d, m)
      [] pattern_type = "Bull Flag" -> detect_bull_flag(c, d, m)
      [] pattern_type = "Cup Handle" -> detect_cup_handle(c, d, m)
      [] pattern_type = "Inside Bar" -> detect_inside_bar(c, d, m, timeframe)
      [] OTHER -> Result(0, NoInfo, NoStages)

\* lines 586-593: the returned triple, confidence being the rescaled value
Triple(m, r, confidence) ==
    [detected |-> Detected(confidence),
     confidence |-> confidence,
     pattern_info |-> AttachMacd(r.pattern_info, m),
     stages |-> Put(r.stages, "detector", r.confidence)]

\* lines 572-593 on the detector's result r
Finish(pattern_type, m, r) == Triple(m, r, Rescale(pattern_type, r.confidence))

\* m is the value lines 559-564 compute from d
detect_pattern(c, d, m, pattern_type, timeframe) ==
    IF TooShort(d, 10) THEN GuardReturn
    ELSE Finish(pattern_type, m, Route(c, d, m, pattern_type, timeframe))


(***************************************************************************)
(* State.  data is the bar series of one ticker and cfg the configuration; *)
(* neither changes.  ind holds the indicator series detect_pattern         *)
(* computes from data at lines 559-564 (a function of data alone, so it is *)
(* computed once, with data).  call is the call in progress, ret the value *)
(* it returned and stages the value of the local `confidence` at named     *)
(* points of that call.  memo is what the caller last noted of a           *)
(* detect_pattern call: its arguments and the triple it returned.          *)
(*                                                                         *)
(* The bar series the model runs on.  A series of n bars is flat inside    *)
(* five price segments (by offset from the end: before -30, -30..-21,      *)
(* -20..-13, -12..-6, -5..-1) and inside three volume segments (before     *)
(* -15, -15..-2, the latest bar); its last two bars (three for the tails   *)
(* "nested", "double" and "stacked") follow a tail shape.                  *)
(***************************************************************************)
Bar(o, h, l, c, v) == [Open |-> o, High |-> h, Low |-> l, Close |-> c, Volume |-> v]

SegLevel(lv, k) ==
    IF k < -30 THEN lv[1]
    ELSE IF k < -20 THEN lv[2]
    ELSE IF k < -12 THEN lv[3]
    ELSE IF k < -5 THEN lv[4]
    ELSE lv[5]

VolAt(vs, k) == IF k < -15 THEN vs[1] ELSE IF k < -1 THEN vs[2] ELSE vs[3]

NestedTails == {"nested", "double", "stacked"}

ShapedBar(tail, k, v, vol) ==
    CASE tail \in {"inside", "tight", "green", "wide"} /\ k = -2
             -> Bar(v, v + 20, v - 10, v + 10, vol)
      [] tail = "wide" /\ k = -1 -> Bar(v + 5, v + 17, v - 6, v, vol)
      [] tail = "inside" /\ k = -1 -> Bar(v + 5, v + 15, v - 5, v, vol)
      [] tail = "tight" /\ k = -1 -> Bar(v + 6, v + 7, v + 3, v + 4, vol)
      [] tail = "green" /\ k = -1 -> Bar(v, v + 15, v - 5, v + 5, vol)
      [] tail = "falling" /\ k = -1 -> Bar(v, v + 2, v - 14, v - 12, vol)
      [] tail = "gap" /\ k = -1 -> Bar(v - 8, v - 6, v - 5, v - 10, vol)
      [] tail = "dip" /\ k = -1 -> Bar(v, v + 2, v - 3, v - 2, vol)
      [] tail \in NestedTails /\ k = -3 -> Bar(v, v + 30, v - 20, v + 10, vol)
      [] tail = "stacked" /\ k = -2 -> Bar(v, v + 20, v - 10, v + 10, vol)
      [] tail = "stacked" /\ k = -1 -> Bar(v + 5, v + 15, v - 5, v, vol)
      [] tail \in {"nested", "double"} /\ k = -2 -> Bar(v + 10, v + 20, v - 10, v, vol)
      [] tail = "nested" /\ k = -1 -> Bar(v, v + 15, v - 5, v + 5, vol)
      [] tail = "double" /\ k = -1 -> Bar(v + 5, v + 15, v - 5, v, vol)
      [] OTHER -> Bar(v, v + 2, v - 2, v, vol)

Build(n, lv, tail, vs) ==
    [t \in 1..n |-> ShapedBar(tail, t - n - 1, SegLevel(lv, t - n - 1), VolAt(vs, t - n - 1))]

Levels == {80, 100, 115}
LevelTuples == {<<a, b, c, d, e>> : a \in {100}, b \in Levels, c \in Levels,
                                     d \in Levels, e \in Levels}
               \cup {<<80, 100, 100, 100, 100>>, <<80, 115, 100, 100, 115>>,
                     <<80, 115, 100, 115, 115>>, <<115, 80, 100, 100, 115>>}
FewLevels == {<<100, 100, 100, 100, 100>>, <<80, 100, 115, 115, 115>>,
              <<80, 115, 100, 115, 115>>, <<100, 80, 100, 100, 100>>,
              <<80, 100, 115, 100, 100>>}
Tails == {"flat", "inside", "tight", "green", "falling", "gap", "dip"}
FlatVolume == <<10, 10, 10>>
VolShapes == {FlatVolume, <<9, 9, 19>>, <<37, 37, 57>>, <<187, 187, 247>>,
              <<20, 10, 10>>, <<12, 10, 10>>, <<10, 10, 7>>, <<10, 10, 9>>,
              <<10, 12, 11>>, <<30, 9, 45>>, <<0, 0, 0>>}
ShortLens == {4, 5, 9, 10, 19, 20, 29, 30, 49}
LongLens == {50, MaxLen}

Inputs ==
    {[n |-> n, lv |-> lv, tail |-> "flat", vs |-> vs, c |-> Config1] :
        n \in LongLens, lv \in LevelTuples, vs \in {FlatVolume, <<37, 37, 57>>}}
    \cup {[n |-> MaxLen, lv |-> lv, tail |-> tail, vs |-> vs, c |-> Config1] :
            lv \in FewLevels, tail \in Tails, vs \in VolShapes}
    \cup {[n |-> MaxLen, lv |-> lv, tail |-> tail, vs |-> vs, c |-> Config2] :
            lv \in FewLevels, tail \in {"flat", "inside", "dip"}, vs \in VolShapes}
    \cup {[n |-> 30, lv |-> lv, tail |-> tail, vs |-> vs, c |-> Config1] :
            lv \in FewLevels, tail \in Tails,
            vs \in {FlatVolume, <<9, 9, 19>>, <<20, 10, 10>>}}
    \cup {[n |-> n, lv |-> lv, tail |-> tail, vs |-> FlatVolume, c |-> Config1] :
            n \in ShortLens, lv \in FewLevels, tail \in {"flat", "inside"}}
    \cup {[n |-> n, lv |-> <<100, 100, 100, 100, 100>>, tail |-> tail, vs |-> vs,
           c |-> Config1] :
            n \in {5, 6, 30}, tail \in NestedTails, vs \in {FlatVolume, <<9, 9, 19>>}}
    \cup {[n |-> n, lv |-> <<100, 100, 100, 100, 100>>, tail |-> "wide", vs |-> vs,
           c |-> Config1] :
            n \in {10, 30}, vs \in {FlatVolume, <<9, 9, 19>>}}

PatternTypes == {"Flat Top Breakout", "Bull Flag", "Cup Handle", "Inside Bar",
                 "Head Shoulders"}
Timeframes == {"daily", "1wk"}

Idle == [fn |-> "none", pattern_type |-> "-", timeframe |-> "-"]
NoReturn == [confidence |-> 0, pattern_info |-> NoInfo]
\* run_analysis (main.py) is not running
NoRun == [phase |-> "none"]
NoMemo == [pattern_type |-> "-", timeframe |-> "-",
           triple |-> [detected |-> FALSE, confidence |-> 0, pattern_info |-> NoInfo]]

Init ==
    /\ \E i \in Inputs : data = Build(i.n, i.lv, i.tail, i.vs) /\ cfg = i.c
    /\ ind = MACD(data)
    /\ call = Idle
    /\ ret = NoReturn
    /\ stages = NoStages
    /\ memo = NoMemo
    /\ run = NoRun

\* a slip that keeps the confidence in a place that outlives the call, so
\* that the confidence of the call noted before is added
DispatcherReturnedCarrying(pattern_type, timeframe, r) ==
    /\ ret' = [detected |-> r.detected,
               confidence |-> Min2(r.confidence + memo.triple.confidence, Pts(100)),
               pattern_info |-> r.pattern_info]
    /\ stages' = r.stages
    /\ call' = [fn |-> "detect_pattern", pattern_type |-> pattern_type,
                timeframe |-> timeframe]
    /\ UNCHANGED <<data, cfg, ind, memo, run>>

\* the triple r comes back to the caller
DispatcherReturned(pattern_type, timeframe, r) ==
    /\ ret' = [detected |-> r.detected, confidence |-> r.confidence,
               pattern_info |-> r.pattern_info]
    /\ stages' = r.stages
    /\ call' = [fn |-> "detect_pattern", pattern_type |-> pattern_type,
                timeframe |-> timeframe]
    /\ UNCHANGED <<data, cfg, ind, memo, run>>

\* detect_pattern(data, pattern_type, market_context, timeframe)
CallDetectPattern(pattern_type, timeframe) ==
    /\ call = Idle
    /\ DispatcherReturned(pattern_type, timeframe,
                          detect_pattern(cfg, data, ind, pattern_type, timeframe))

\* a detector called on its own, with the indicator series of the same data
Returned(fn, pattern_type, timeframe, r) ==
    /\ ret' = [confidence |-> r.confidence, pattern_info |-> r.pattern_info]
    /\ stages' = r.stages
    /\ call' = [fn |-> fn, pattern_type |-> pattern_type, timeframe |-> timeframe]
    /\ UNCHANGED <<data, cfg, ind, memo, run>>

CallDetectInsideBar(timeframe) ==
    /\ call = Idle
    /\ Returned("detect_inside_bar", "Inside Bar", timeframe,
                detect_inside_bar(cfg, data, ind, timeframe))

CallDetectFlatTop ==
    /\ call = Idle
    /\ Returned("detect_flat_top", "Flat Top Breakout", "-",
                detect_flat_top(cfg, data, ind))

CallDetectBullFlag ==
    /\ call = Idle
    /\ Returned("detect_bull_flag", "Bull Flag", "-",
                detect_bull_flag(cfg, data, ind))

CallDetectCupHandle ==
    /\ call = Idle
    /\ Returned("detect_cup_handle", "Cup Handle", "-",
                detect_cup_handle(cfg, data, ind))

\* analyze_volume_pattern(data, pattern_type, pattern_info)
CallAnalyzeVolume(pattern_type, pattern_info) ==
    /\ call = Idle
    /\ LET r == analyze_volume_pattern(cfg, data, pattern_type, pattern_info)
       IN  /\ ret' = [confidence |-> r.volume_score, pattern_info |-> r.volume_info]
           /\ stages' = [tier_score |-> r.tier_score, passed |-> DOMAIN pattern_info]
    /\ call' = [fn |-> "analyze_volume_pattern", pattern_type |-> pattern_type,
                timeframe |-> "-"]
    /\ UNCHANGED <<data, cfg, ind, memo, run>>

\* the caller takes the result; the next call starts from nothing
Return ==
    /\ call # Idle
    /\ call' = Idle
    /\ ret' = NoReturn
    /\ stages' = NoStages
    /\ UNCHANGED <<data, cfg, ind, memo, run>>

Next ==
    \/ \E pt \in PatternTypes, tf \in Timeframes : CallDetectPattern(pt, tf)
    \/ \E tf \in Timeframes : CallDetectInsideBar(tf)
    \/ CallDetectFlatTop
    \/ CallDetectBullFlag
    \/ CallDetectCupHandle
    \/ \E pt \in PatternTypes, info \in {NoInfo, [flagpole_gain |-> 125]} :
           CallAnalyzeVolume(pt, info)
    \/ Return

Spec == Init /\ [][Next]_vars

(***************************************************************************)
(* Repeated calls.  The caller keeps the triple a detect_pattern call      *)
(* returned (main.py line 143 binds it), so that a later call with the     *)
(* same arguments can be compared with it.  The series are fewer here, the *)
(* calls the same.                                                         *)
(***************************************************************************)
RepeatInputs ==
    {[n |-> MaxLen, lv |-> lv, tail |-> tail, vs |-> vs, c |-> c] :
        lv \in {<<80, 100, 115, 115, 115>>, <<80, 100, 115, 100, 100>>},
        tail \in {"flat", "inside", "dip"},
        vs \in {FlatVolume, <<9, 9, 19>>, <<30, 9, 45>>},
        c \in Configs}
    \cup {[n |-> n, lv |-> <<100, 100, 100, 100, 100>>, tail |-> "inside",
           vs |-> FlatVolume, c |-> Config1] : n \in {9, 30}}

InitRepeat ==
    /\ \E i \in RepeatInputs : data = Build(i.n, i.lv, i.tail, i.vs) /\ cfg = i.c
    /\ ind = MACD(data)
    /\ call = Idle
    /\ ret = NoReturn
    /\ stages = NoStages
    /\ memo = NoMemo
    /\ run = NoRun

\* detected, confidence, info = detect_pattern(...): the call is over and
\* the caller holds its triple
ReturnNoted ==
    /\ call.fn = "detect_pattern"
    /\ memo' = [pattern_type |-> call.pattern_type, timeframe |-> call.timeframe,
                triple |-> ret]
    /\ call' = Idle
    /\ ret' = NoReturn
    /\ stages' = NoStages
    /\ UNCHANGED <<data, cfg, ind, run>>

NextRepeat == Next \/ ReturnNoted

SpecRepeat == InitRepeat /\ [][NextRepeat]_vars

(***************************************************************************)
(* run_analysis, main.py lines 121-184, for one ticker: the fetch, then    *)
(* one step per selected pattern, in order.  run holds the settings of the *)
(* sidebar, the patterns still to analyze, the locals of the last          *)
(* iteration and the results list.                                         *)
(***************************************************************************)
\* market_timing.adjust_confidence_for_timing(confidence, info,
\* market_context): the confidence moved by what the market context asks
\* for, the facts handed on
TimingAdjustments == {-Pts(10), 0, Pts(10)}
adjust_confidence_for_timing(confidence, info, adjustment) ==
    [confidence |-> confidence + adjustment, info |-> info]

\* info.get('volume_multiplier', 0)
VolumeMultiplierOf(info) ==
    IF "volume_multiplier" \in DOMAIN info THEN info["volume_multiplier"] ELSE Frac(0, 1)

\* a slip that leaves the volume filter out
SkipPatternNever(rn, info) == FALSE

\* lines 148-158: volume_multiplier < required_threshold, when the filter is on
SkipPattern(rn, info) ==
    rn.require_volume /\ FracLT(VolumeMultiplierOf(info), rn.volume_threshold)

\* line 160
Listable(rn, detected, confidence) ==
    detected /\ confidence >= Pts(rn.min_confidence)

\* lines 148-178: filter, then list or report
Iteration(rn, pattern, detected, raw, adjusted) ==
    run' = [rn EXCEPT
              !.todo = Tail(@),
              !.results =
                  IF ~SkipPattern(rn, adjusted.info)
                        /\ Listable(rn, detected, adjusted.confidence)
                  THEN Append(@, [pattern |-> pattern,
                                  confidence |-> adjusted.confidence])
                  ELSE @,
              !.last = [pattern |-> pattern,
                        detected |-> detected,
                        raw |-> raw,
                        confidence |-> adjusted.confidence,
                        volume_multiplier |-> VolumeMultiplierOf(adjusted.info),
                        outcome |-> IF SkipPattern(rn, adjusted.info) THEN "filtered"
                                    ELSE IF Listable(rn, detected, adjusted.confidence)
                                    THEN "listed"
                                    ELSE "below threshold"]]

\* lines 143-146: the dispatcher's triple t, then the timing adjustment
Adjusted(rn, pattern, t, adjustment) ==
    Iteration(rn, pattern, t.detected, t.confidence,
              adjust_confidence_for_timing(t.confidence, t.pattern_info, adjustment))

\* one pass of the loop over selected_patterns (period is passed as the
\* dispatcher's timeframe tag, line 143)
AnalyzePattern(adjustment) ==
    /\ run.phase = "patterns"
    /\ run.todo # << >>
    /\ Adjusted(run, Head(run.todo),
                detect_pattern(cfg, data, ind, Head(run.todo), run.period), adjustment)
    /\ UNCHANGED <<data, cfg, ind, call, ret, stages, memo>>

\* lines 135-139: data is None, the ticker is skipped
FetchFailed ==
    /\ run.phase = "fetch"
    /\ run' = [run EXCEPT !.phase = "done", !.todo = << >>]
    /\ UNCHANGED <<data, cfg, ind, call, ret, stages, memo>>

\* line 135: the series of the ticker is there
Fetched ==
    /\ run.phase = "fetch"
    /\ run' = [run EXCEPT !.phase = "patterns"]
    /\ UNCHANGED <<data, cfg, ind, call, ret, stages, memo>>

\* lines 180-184: the loop is over
Summary ==
    /\ run.phase = "patterns"
    /\ run.todo = << >>
    /\ run' = [run EXCEPT !.phase = "done"]
    /\ UNCHANGED <<data, cfg, ind, call, ret, stages, memo>>

RunInputs ==
    {[n |-> MaxLen, lv |-> lv, tail |-> tail, vs |-> vs, c |-> c] :
        lv \in {<<100, 100, 100, 100, 100>>, <<80, 100, 115, 115, 115>>},
        tail \in {"flat", "inside"},
        vs \in {FlatVolume, <<9, 9, 19>>, <<37, 37, 57>>, <<0, 0, 0>>},
        c \in Configs}
    \cup {[n |-> n, lv |-> <<100, 100, 100, 100, 100>>, tail |-> "inside",
           vs |-> FlatVolume, c |-> Config1] : n \in {9, 19}}
SelectedPatterns == {<<"Inside Bar", "Bull Flag">>,
                     <<"Flat Top Breakout", "Cup Handle", "Inside Bar">>}
MinConfidences == {45, 60}
VolumeThresholds == {1300, 2000}
Periods == {"1y", "1wk"}
NoIteration == [pattern |-> "-", detected |-> FALSE, raw |-> 0, confidence |-> 0,
                volume_multiplier |-> Frac(0, 1), outcome |-> "-"]

InitRun ==
    /\ \E i \in RunInputs : data = Build(i.n, i.lv, i.tail, i.vs) /\ cfg = i.c
    /\ ind = MACD(data)
    /\ call = Idle
    /\ ret = NoReturn
    /\ stages = NoStages
    /\ memo = NoMemo
    /\ \E sp \in SelectedPatterns, mc \in MinConfidences, rv \in BOOLEAN,
          vt \in VolumeThresholds, pd \in Periods :
          /\ rv = FALSE => vt = 1300
          /\ run = [phase |-> "fetch", period |-> pd, min_confidence |-> mc,
                    require_volume |-> rv, volume_threshold |-> vt,
                    todo |-> sp, results |-> << >>, last |-> NoIteration]

NextRun ==
    \/ FetchFailed
    \/ Fetched
    \/ \E adjustment \in TimingAdjustments : AnalyzePattern(adjustment)
    \/ Summary

SpecRun == InitRun /\ [][NextRun]_vars

(***************************************************************************)
(* Series of every length from 30 to MaxCupLen for detect_cup_handle: a    *)
(* cup (high quarter, low quarter, high half) or a flat line.              *)
(***************************************************************************)
MaxCupLen == 104
CupShapes == {"cup", "flat"}
CupSeries(n, shape) ==
    [t \in 1..n |->
        IF shape = "cup" /\ 4 * t > n /\ 2 * t <= n
        THEN Bar(100, 102, 98, 100, 10)
        ELSE Bar(115, 117, 113, 115, 10)]

InitCup ==
    /\ \E n \in 30..MaxCupLen, shape \in CupShapes : data = CupSeries(n, shape)
    /\ cfg = Config1
    /\ ind = MACD(data)
    /\ call = Idle
    /\ ret = NoReturn
    /\ stages = NoStages
    /\ memo = NoMemo
    /\ run = NoRun

NextCup == CallDetectCupHandle \/ Return

SpecCup == InitCup /\ [][NextCup]_vars


(***************************************************************************)
(* Properties.                                                             *)
(***************************************************************************)
N == Len(data)
Called(fn) == call.fn = fn
Facts == DOMAIN ret.pattern_info
Fact(k) == ret.pattern_info[k]
FourPatterns == {"Flat Top Breakout", "Bull Flag", "Cup Handle", "Inside Bar"}
CurrentClose == data[N].Close

\* C1: the confidence detect_pattern returns lies in [0, 100], for every
\* pattern name, timeframe tag and bar series.
C1_ConfidenceInRange ==
    Called("detect_pattern") => ret.confidence >= 0 /\ ret.confidence <= Pts(100)

\* a detector returned more than the clamp lets through
C1_Witness ==
    /\ Called("detect_pattern")
    /\ "detector" \in DOMAIN stages
    /\ stages["detector"] > Pts(100)
    /\ ret.confidence = Pts(100)

\* C2: in each of the four pattern branches the boolean detect_pattern returns
\* is true exactly when the confidence of the same triple is >= 55.
C2_DetectedIffAtLeast55 ==
    (Called("detect_pattern") /\ call.pattern_type \in FourPatterns)
        => (ret.detected <=> ret.confidence >= Pts(55))

\* a result exactly on the threshold, reported as detected
C2_Witness ==
    /\ Called("detect_pattern")
    /\ call.pattern_type \in FourPatterns
    /\ ret.confidence = Pts(55)
    /\ ret.detected


\* the quantities detect_bull_flag reads from a series of at least 30 bars
FlagpoleStart == Min2(25, N - 10)
FlagpoleStartPrice == data[N - FlagpoleStart + 1].Close
FlagpolePeak == MaxHigh(data, N - FlagpoleStart + 1, N - 15)
FlagpoleGainOK ==
    (FlagpolePeak - FlagpoleStartPrice) * 1000
        >= cfg.PATTERN_THRESHOLDS.BullFlag.min_flagpole_gain * FlagpoleStartPrice
AboveFlagSupport ==
    CurrentClose * 1000
        >= MinLow(data, N - 14, N) * cfg.PATTERN_THRESHOLDS.BullFlag.flag_tolerance
BelowFlagpoleStart == CurrentClose < FlagpoleStartPrice
ReportsBelowFlagpoleStart ==
    /\ ret.confidence = 0
    /\ "break_reason" \in Facts
    /\ Fact("break_reason") = "Below flagpole start"

\* C3 as stated: in detect_bull_flag, a current close strictly below the
\* flagpole start price yields confidence 0 with break_reason "Below flagpole
\* start", whatever the flagpole gain, the pullback and the flag-support check.
C3_AsStated ==
    (Called("detect_bull_flag") /\ N >= 30 /\ BelowFlagpoleStart)
        => ReportsBelowFlagpoleStart

\* C3 amended: in detect_bull_flag on at least 30 bars, a current close strictly
\* below the flagpole start price yields confidence 0; the fact map is
\* {pattern_broken, break_reason "Below flagpole start"} when moreover the
\* flagpole gain reaches the configured minimum and the close is not below
\* flag_low x tolerance (those two checks come first and return their own result).
C3_BelowFlagpoleStart ==
    (Called("detect_bull_flag") /\ N >= 30 /\ BelowFlagpoleStart)
        => /\ ret.confidence = 0
           /\ (FlagpoleGainOK /\ AboveFlagSupport)
                 => /\ ReportsBelowFlagpoleStart
                    /\ Facts = {"pattern_broken", "break_reason"}

\* the pullback bonus had been accrued and the close is below the start price
C3_Witness ==
    /\ Called("detect_bull_flag")
    /\ N >= 30
    /\ BelowFlagpoleStart
    /\ "pullback" \in DOMAIN stages
    /\ stages["pullback"] = Pts(45)
    /\ ReportsBelowFlagpoleStart

\* the quantities detect_flat_top reads from a series of at least 50 bars
AscentStart == Min2(45, N - 15)
AscentStartPrice == data[N - AscentStart + 1].Close
AscentPeak == MaxHigh(data, N - AscentStart + 1, N - 25)
DescentLow == MinLow(data, N - 24, N - 10)
InitialGainOK ==
    (AscentPeak - AscentStartPrice) * 1000
        >= cfg.PATTERN_THRESHOLDS.FlatTop.min_initial_gain * AscentStartPrice
PullbackBelowMinimum ==
    (AscentPeak - DescentLow) * 1000
        < cfg.PATTERN_THRESHOLDS.FlatTop.min_pullback * AscentPeak

\* C4: detect_flat_top on at least 50 bars whose initial gain reaches the
\* configured minimum and whose pullback is below the configured minimum
\* returns confidence exactly 25 and a fact map holding nothing but the
\* ascent fact.
C4_FlatTopSoftReject ==
    (Called("detect_flat_top") /\ N >= 50 /\ InitialGainOK /\ PullbackBelowMinimum)
        => /\ ret.confidence = Pts(25)
           /\ Facts = {"initial_ascension"}

C4_Witness ==
    /\ Called("detect_flat_top")
    /\ N >= 50
    /\ InitialGainOK
    /\ PullbackBelowMinimum
    /\ ret.confidence = Pts(25)

\* the quantities detect_cup_handle reads from a series of at least 30 bars
CupLookback == Min2(100, N - 3)
CupHandleDays == Min2(30, CupLookback \div 3)
CupStart == data[N - CupLookback + 1].Close
CupRight == data[N - CupHandleDays].Close
CupRim == Max2(CupStart, CupRight)
CupBottom == MinLow(data, N - CupLookback + 1, N - CupHandleDays)
CupTooShallow ==
    (CupRim - CupBottom) * 1000 < cfg.PATTERN_THRESHOLDS.CupHandle.min_cup_depth * CupRim
CupTooDeep ==
    (CupRim - CupBottom) * 1000 > cfg.PATTERN_THRESHOLDS.CupHandle.max_cup_depth * CupRim

\* C5: in detect_cup_handle a cup_depth below the configured minimum or above
\* the configured maximum yields (0, {}): no base score, no handle fact, no
\* volume fact.
C5_CupDepthOutsideBand ==
    (Called("detect_cup_handle") /\ N >= 30 /\ (CupTooShallow \/ CupTooDeep))
        => /\ ret.confidence = 0
           /\ ret.pattern_info = NoInfo
           /\ stages = NoStages

\* a cup deeper than the band allows, with a right side that would pass
C5_Witness ==
    /\ Called("detect_cup_handle")
    /\ N >= 30
    /\ CupTooDeep
    /\ CupRight * 100 >= CupStart * 75
    /\ ret.confidence = 0
    /\ ret.pattern_info = NoInfo

\* the pattern-specific minimum length of a detector
MinBars(fn) ==
    CASE fn = "detect_inside_bar" -> 5
      [] fn = "detect_bull_flag" -> 30
      [] fn = "detect_cup_handle" -> 30
      [] fn = "detect_flat_top" -> 50
Detectors == {"detect_inside_bar", "detect_bull_flag", "detect_cup_handle",
              "detect_flat_top"}

\* C6: a detector called with a series shorter than its minimum (Inside Bar 5,
\* Bull Flag 30, Cup Handle 30, Flat Top 50 bars) returns confidence 0 and an
\* empty fact map; detect_pattern called with fewer than 10 bars returns
\* (false, 0, {}).
C6_ShortSeries ==
    /\ (call.fn \in Detectors /\ N < MinBars(call.fn))
          => ret.confidence = 0 /\ ret.pattern_info = NoInfo
    /\ (Called("detect_pattern") /\ N < 10)
          => ~ret.detected /\ ret.confidence = 0 /\ ret.pattern_info = NoInfo

\* one bar short of the Flat Top minimum, on a series whose ascent would pass
C6_Witness ==
    /\ Called("detect_flat_top")
    /\ N = 49
    /\ InitialGainOK
    /\ ret.confidence = 0
    /\ ret.pattern_info = NoInfo

IndicatorFacts == {"macd_line", "signal_line", "histogram"}

\* C7 as stated: whatever the outcome of a call to detect_pattern, the length
\* guard included, the fact map returned holds macd_line, signal_line and
\* histogram.
C7_AsStated == Called("detect_pattern") => IndicatorFacts \subseteq Facts

\* C7 amended: every call to detect_pattern with at least 10 bars returns a
\* fact map holding macd_line, signal_line and histogram, whatever the outcome
\* (hard rejection, stale, soft rejection, unknown pattern name); with fewer
\* than 10 bars the length guard returns an empty fact map.
C7_IndicatorsAttached ==
    Called("detect_pattern")
        => IF N >= 10
           THEN /\ IndicatorFacts \subseteq Facts
                /\ Fact("macd_line") = ind.macd_line
                /\ Fact("signal_line") = ind.signal_line
                /\ Fact("histogram") = ind.histogram
           ELSE ret.pattern_info = NoInfo

\* a hard rejection that still carries the indicator series
C7_Witness ==
    /\ Called("detect_pattern")
    /\ "pattern_broken" \in Facts
    /\ ret.confidence = 0
    /\ IndicatorFacts \subseteq Facts

\* the rescaling factor of a pattern branch, in percent
FactorPct(pattern_type) ==
    CASE pattern_type = "Bull Flag" -> 105
      [] pattern_type = "Cup Handle" -> 110
      [] OTHER -> 100

\* C8: the confidence detect_pattern returns is min(f * c, 100), c the
\* confidence the routed detector returned and f = 1, 1.05, 1.10, 1 for Flat
\* Top Breakout, Bull Flag, Cup Handle, Inside Bar: rescaled, then clamped.
C8_RescaleThenClamp ==
    (Called("detect_pattern") /\ N >= 10 /\ call.pattern_type \in FourPatterns)
        => /\ "detector" \in DOMAIN stages
           /\ ret.confidence * 100
                = Min2(FactorPct(call.pattern_type) * stages["detector"], Pts(100) * 100)

\* a detector result below 100 that the rescaling lifts above 100: only
\* rescaling first reaches the clamp
C8_Witness ==
    /\ Called("detect_pattern")
    /\ call.pattern_type \in {"Bull Flag", "Cup Handle"}
    /\ "detector" \in DOMAIN stages
    /\ stages["detector"] < Pts(100)
    /\ stages["detector"] * FactorPct(call.pattern_type) > Pts(100) * 100
    /\ ret.confidence = Pts(100)

\* volume_multiplier = current / avg20 of the series, against a threshold in permille
Sum20 == SumVol(data, N - 19, N)
MultiplierAtLeast(t) == Sum20 > 0 /\ data[N].Volume * 20 * 1000 >= t * Sum20
TierFlags == {"exceptional_volume", "strong_volume", "good_volume", "weak_volume"}
ExpectedTier ==
    IF MultiplierAtLeast(cfg.VOLUME_THRESHOLDS.exceptional) THEN "exceptional"
    ELSE IF MultiplierAtLeast(cfg.VOLUME_THRESHOLDS.strong) THEN "strong"
    ELSE IF MultiplierAtLeast(cfg.VOLUME_THRESHOLDS.good) THEN "good"
    ELSE "weak"
OnTierBoundary ==
    \E k \in {"exceptional", "strong", "good"} :
        Sum20 > 0 /\ data[N].Volume * 20 * 1000 = cfg.VOLUME_THRESHOLDS[k] * Sum20

\* C9: on a series of at least 20 bars analyze_volume_pattern sets exactly one
\* of the four tier flags, that of the highest tier whose threshold the
\* multiplier meets (>=), and scores that tier's points; a multiplier equal to
\* a threshold falls in the higher tier.
C9_VolumeTier ==
    (Called("analyze_volume_pattern") /\ N >= 20)
        => /\ Cardinality(Facts \cap TierFlags) = 1
           /\ (ExpectedTier \o "_volume") \in Facts
           /\ Fact(ExpectedTier \o "_volume") = TRUE
           /\ stages["tier_score"] =
                 (IF ExpectedTier = "weak" THEN 0
                  ELSE Pts(cfg.VOLUME_SCORE_POINTS[ExpectedTier]))

\* a multiplier exactly on a threshold
C9_Witness ==
    /\ Called("analyze_volume_pattern")
    /\ N >= 20
    /\ OnTierBoundary
    /\ data[N].Volume * 20 = 2 * Sum20
    /\ "exceptional_volume" \in Facts

\* the latest bar is red and strictly inside a green previous bar
LatestRedInsideGreen ==
    /\ N >= 2
    /\ data[N].Close < data[N].Open
    /\ data[N - 1].Close > data[N - 1].Open
    /\ data[N].High < data[N - 1].High
    /\ data[N].Low > data[N - 1].Low

BarAt(k) == data[N - k + 1]
StrictlyInsidePrevious(k) ==
    /\ BarAt(k).High < BarAt(k + 1).High
    /\ BarAt(k).Low > BarAt(k + 1).Low
Green(k) == BarAt(k).Close > BarAt(k).Open
Red(k) == BarAt(k).Close < BarAt(k).Open
\* the offsets the scan may examine: 4 daily, 6 weekly
Lookback == IF call.timeframe = "1wk" THEN 6 ELSE 4
\* what the scan of the call in progress found
ScanResult == InsideBarScan(data, call.timeframe)
CountedOffsets == {ScanResult.inside_bar_indices[j] : j \in 1..Len(ScanResult.inside_bar_indices)}

\* C11: in the backward scan of detect_inside_bar, a bar strictly inside its
\* predecessor's range that closes green is not counted as an inside bar, and
\* no bar at its offset or an earlier one is counted; when it is the latest
\* bar the call returns confidence 0 without any inside-bar fact.
C11_GreenInsideBarStopsScan ==
    (Called("detect_inside_bar") /\ N >= 5)
        => \A k \in 1..Lookback :
              (N - k >= 1 /\ StrictlyInsidePrevious(k) /\ Green(k))
                  => /\ \A j \in CountedOffsets : j > -k
                     /\ k = 1 => /\ ret.confidence = 0
                                 /\ "inside_bars_count" \notin Facts

\* the latest bar is green inside a red bar that itself qualifies against a
\* green bar: the earlier offset would count, had the scan gone on
C11_Witness ==
    /\ Called("detect_inside_bar")
    /\ N >= 5
    /\ StrictlyInsidePrevious(1) /\ Green(1)
    /\ StrictlyInsidePrevious(2) /\ Red(2) /\ Green(3)
    /\ ret.confidence = 0
    /\ CountedOffsets = {}

\* the facts the call in progress had recorded before its return
RecordedFacts == stages["recorded"]
HardReset == {"pattern_broken", "break_reason"}

\* C12 as stated: whatever the return of a detector call (hard rejection,
\* stale and early exit included), every fact the call had recorded is in the
\* fact map it returns.
C12_AsStated ==
    (call.fn \in Detectors /\ "recorded" \in DOMAIN stages)
        => RecordedFacts \subseteq Facts

\* C12 amended: every fact a detector call had recorded is in the fact map it
\* returns, on the stale, soft-rejection and early-exit returns too, except on
\* a hard rejection (Bull Flag below flag support or flagpole start, Flat Top
\* below support), which returns confidence 0 and a fresh map holding
\* pattern_broken and break_reason and none of the facts recorded before.
C12_FactsKept ==
    (call.fn \in Detectors /\ "recorded" \in DOMAIN stages)
        => IF "pattern_broken" \in Facts
           THEN /\ Facts = HardReset
                /\ ret.confidence = 0
                /\ call.fn \in {"detect_bull_flag", "detect_flat_top"}
           ELSE RecordedFacts \subseteq Facts

\* a stale Flat Top return that carries the facts of three stages
C12_Witness ==
    /\ Called("detect_flat_top")
    /\ "recorded" \in DOMAIN stages
    /\ "pattern_stale" \in Facts
    /\ Cardinality(RecordedFacts) >= 2
    /\ RecordedFacts \subseteq Facts

VolumeFlags == {"good_volume", "strong_volume", "exceptional_volume"}
Ceiling == Pts(cfg.MAX_CONFIDENCE_WITHOUT_VOLUME)
ReachedVolumeStage == "after_volume" \in DOMAIN stages
\* the confidence the cap is applied to: in detect_bull_flag the near-breakout
\* bonus comes between the volume stage and the cap
BeforeCap ==
    stages["after_volume"]
        + (IF Called("detect_bull_flag") /\ "near_breakout" \in Facts THEN Pts(10) ELSE 0)

\* C14: a result of detect_inside_bar, detect_bull_flag or detect_flat_top
\* that reached the volume stage is, when none of good_volume, strong_volume,
\* exceptional_volume is set, at most the configured ceiling (the smaller of
\* the accrued confidence and the ceiling) with confidence_capped recorded;
\* when one is set it is the accrued confidence and confidence_capped is absent.
C14_VolumeCap ==
    (call.fn \in {"detect_inside_bar", "detect_bull_flag", "detect_flat_top"}
        /\ ReachedVolumeStage)
        => IF Facts \cap VolumeFlags = {}
           THEN /\ ret.confidence <= Ceiling
                /\ ret.confidence = Min2(BeforeCap, Ceiling)
                /\ "confidence_capped" \in Facts
           ELSE /\ ret.confidence = BeforeCap
                /\ "confidence_capped" \notin Facts

\* a confidence above the ceiling cut down to it for want of volume
C14_Witness ==
    /\ call.fn \in {"detect_inside_bar", "detect_bull_flag", "detect_flat_top"}
    /\ ReachedVolumeStage
    /\ Facts \cap VolumeFlags = {}
    /\ BeforeCap > Ceiling
    /\ ret.confidence = Ceiling
    /\ "confidence_capped" \in Facts

\* days_old of detect_flat_top: the first offset in 1..10 whose High reaches
\* the resistance, else 11
ReachesResistance(i) ==
    data[N - i + 1].High * 1000
        >= AscentPeak * cfg.PATTERN_THRESHOLDS.FlatTop.resistance_tolerance
FlatTopDaysOld ==
    IF \E i \in 1..10 : ReachesResistance(i)
    THEN CHOOSE i \in 1..10 :
             ReachesResistance(i) /\ \A j \in 1..(i - 1) : ~ReachesResistance(j)
    ELSE 11
FlatTopStale == FlatTopDaysOld > cfg.PATTERN_AGE_LIMITS.FlatTop
BelowSupport == CurrentClose * 100 < DescentLow * 95
ReachedAgeCheck ==
    Called("detect_flat_top") /\ N >= 50 /\ InitialGainOK /\ ~PullbackBelowMinimum

\* C15: in detect_flat_top the staleness check comes before the break check:
\* when days_old exceeds the configured age limit the call returns half the
\* accrued confidence with pattern_stale and days_old recorded, also when the
\* current close is below descent_low x 0.95; the hard reset (0,
\* {pattern_broken, break_reason "Below support"}) is returned exactly when
\* the pattern is not stale and the close is below descent_low x 0.95.
C15_StaleBeforeBreak ==
    ReachedAgeCheck
        => /\ "before_age" \in DOMAIN stages
           /\ FlatTopStale
                 => /\ ret.confidence * 2 = stages["before_age"]
                    /\ "pattern_stale" \in Facts /\ Fact("pattern_stale") = TRUE
                    /\ "days_old" \in Facts /\ Fact("days_old") = FlatTopDaysOld
                    /\ "pattern_broken" \notin Facts
           /\ (~FlatTopStale /\ BelowSupport)
                 => /\ ret.confidence = 0
                    /\ Facts = HardReset
                    /\ Fact("break_reason") = "Below support"
           /\ "pattern_broken" \in Facts => ~FlatTopStale /\ BelowSupport

\* stale and below support at once: the stale return wins
C15_Witness ==
    /\ ReachedAgeCheck
    /\ FlatTopStale
    /\ BelowSupport
    /\ "pattern_stale" \in Facts
    /\ ret.confidence > 0

\* C16: in detect_cup_handle a confidence below 35 after the volume stage is
\* returned as it is, with no confidence_capped fact; a confidence of 35 or
\* more gets the standard cap (the smaller of it and the ceiling, with
\* confidence_capped, when no volume flag is set; itself otherwise).
C16_CupEarlyExit ==
    (Called("detect_cup_handle") /\ ReachedVolumeStage)
        => IF stages["after_volume"] < Pts(35)
           THEN /\ ret.confidence = stages["after_volume"]
                /\ "confidence_capped" \notin Facts
           ELSE IF Facts \cap VolumeFlags = {}
           THEN /\ ret.confidence = Min2(stages["after_volume"], Ceiling)
                /\ "confidence_capped" \in Facts
           ELSE /\ ret.confidence = stages["after_volume"]
                /\ "confidence_capped" \notin Facts

\* an early exit without volume confirmation: no cap is recorded
C16_Witness ==
    /\ Called("detect_cup_handle")
    /\ ReachedVolumeStage
    /\ stages["after_volume"] < Pts(35)
    /\ stages["after_volume"] > 0
    /\ Facts \cap VolumeFlags = {}
    /\ "weak_volume" \in Facts
    /\ "confidence_capped" \notin Facts

AgingThreshold == IF call.timeframe = "1wk" THEN -8 ELSE -6
AgingPenaltyTenths == IF call.timeframe = "1wk" THEN 7 ELSE 8
\* the call found an inside bar and scored it
PatternScored == Called("detect_inside_bar") /\ "capped" \in DOMAIN stages

DoubleInsideBar ==
    /\ N >= 5
    /\ StrictlyInsidePrevious(1) /\ Red(1)
    /\ StrictlyInsidePrevious(2) /\ Red(2)
    /\ Green(3)

QualifiesAt(k) == StrictlyInsidePrevious(k) /\ Red(k) /\ Green(k + 1)
NoOffsetQualifies == \A k \in 1..Lookback : N - k >= 1 => ~QualifiesAt(k)

\* C19 as stated: detect_inside_bar on at least 5 bars none of whose offsets
\* qualifies returns confidence 0 and an empty fact map.
C19_AsStated ==
    (Called("detect_inside_bar") /\ N >= 5 /\ NoOffsetQualifies)
        => ret.confidence = 0 /\ ret.pattern_info = NoInfo

\* C19 amended: detect_inside_bar on at least 5 bars whose latest bar does not
\* qualify (so in particular when no offset qualifies) returns confidence 0
\* and a fact map holding the timeframe label alone: "Weekly" for the tag
\* "1wk", "Daily" otherwise.
C19_NoInsideBar ==
    (Called("detect_inside_bar") /\ N >= 5 /\ ~QualifiesAt(1))
        => /\ ret.confidence = 0
           /\ Facts = {"timeframe"}
           /\ Fact("timeframe") = (IF call.timeframe = "1wk" THEN "Weekly" ELSE "Daily")

\* a weekly call on a series without any inside bar
C19_Witness ==
    /\ Called("detect_inside_bar")
    /\ call.timeframe = "1wk"
    /\ N >= 5
    /\ NoOffsetQualifies
    /\ ret.confidence = 0
    /\ Facts = {"timeframe"}

InsideBarBonus == Pts(cfg.PATTERN_VOLUME_BONUS.InsideBar)
MultiplierBelow(t) == Sum20 > 0 /\ data[N].Volume * 20 * 1000 < t * Sum20
QuietPart ==
    IF MultiplierBelow(800) THEN InsideBarBonus
    ELSE IF MultiplierBelow(1000) THEN (InsideBarBonus * 67) \div 100
    ELSE 0
ExpansionPart == IF MultiplierAtLeast(1500) THEN InsideBarBonus ELSE 0
TrendPart ==
    IF "increasing_volume_trend" \in Facts \/ "decreasing_volume_trend" \in Facts
    THEN Pts(5) ELSE 0

\* C20: analyze_volume_pattern for pattern type Inside Bar on at least 20
\* bars: a multiplier < 0.8 adds the full bonus with consolidation_volume,
\* else a multiplier < 1.0 adds 0.67 x bonus with quiet_consolidation;
\* separately a multiplier >= 1.5 adds the full bonus with
\* breakout_volume_expansion; the score is the tier points plus these parts
\* (each added when its condition holds) plus the trend points.
C20_InsideBarVolume ==
    (Called("analyze_volume_pattern") /\ call.pattern_type = "Inside Bar" /\ N >= 20)
        => /\ ret.confidence = stages["tier_score"] + QuietPart + ExpansionPart + TrendPart
           /\ "consolidation_volume" \in Facts <=> MultiplierBelow(800)
           /\ "quiet_consolidation" \in Facts
                 <=> (~MultiplierBelow(800) /\ MultiplierBelow(1000))
           /\ "breakout_volume_expansion" \in Facts <=> MultiplierAtLeast(1500)

\* a multiplier between 0.8 and 1.0: 0.67 x bonus, quiet_consolidation
C20_Witness ==
    /\ Called("analyze_volume_pattern")
    /\ call.pattern_type = "Inside Bar"
    /\ N >= 20
    /\ ~MultiplierBelow(800) /\ MultiplierBelow(1000)
    /\ "quiet_consolidation" \in Facts
    /\ ret.confidence >= (InsideBarBonus * 67) \div 100

(***************************************************************************)
(* The flagpole bonus of analyze_volume_pattern, lines 48-67.              *)
(***************************************************************************)
FlagpoleWindowStart == Min2(25, N - 10)
FlagpoleCount == IF FlagpoleWindowStart > 15 THEN FlagpoleWindowStart - 15 ELSE 0
FlagpoleVolSum == SumVol(data, N - FlagpoleWindowStart + 1, N - 15)
FlagVolSum == SumVol(data, N - 14, N)
\* mean flagpole-window volume / mean trailing-15 volume > t / 1000; an
\* empty flagpole window or 0 / 0 gives no ratio and compares false
FlagpoleRatioAbove(t) ==
    /\ FlagpoleCount > 0
    /\ FlagpoleVolSum * 15 * 1000 > t * FlagVolSum * FlagpoleCount
GainPassed == "flagpole_gain" \in stages["passed"]
BullFlagBonus == Pts(cfg.PATTERN_VOLUME_BONUS.BullFlag)
\* what the pattern-specific step added: the score less tier and trend points
FlagpolePart == ret.confidence - stages["tier_score"] - TrendPart
BullFlagVolumeCall ==
    Called("analyze_volume_pattern") /\ call.pattern_type = "Bull Flag" /\ N >= 20

\* C21 as stated: in analyze_volume_pattern for Bull Flag the flagpole bonus
\* is evaluated only if the passed fact map contains flagpole_gain; a ratio
\* > 1.2 adds the full configured bonus, a ratio in (1.1, 1.2] adds exactly
\* half of the configured bonus, any other ratio adds nothing.
C21_AsStated ==
    BullFlagVolumeCall
        => IF GainPassed /\ FlagpoleRatioAbove(1200) THEN FlagpolePart = BullFlagBonus
           ELSE IF GainPassed /\ FlagpoleRatioAbove(1100)
           THEN 2 * FlagpolePart = BullFlagBonus
           ELSE FlagpolePart = 0

\* C21 amended: as stated, except that a ratio in (1.1, 1.2] adds the
\* configured bonus floor-divided by 2 (bonus // 2), which is half of it
\* only when the bonus is even; the full tier sets flagpole_volume_pattern,
\* the half tier moderate_flagpole_volume.
C21_FlagpoleBonus ==
    BullFlagVolumeCall
        => /\ IF GainPassed /\ FlagpoleRatioAbove(1200) THEN FlagpolePart = BullFlagBonus
              ELSE IF GainPassed /\ FlagpoleRatioAbove(1100)
              THEN FlagpolePart = Pts(cfg.PATTERN_VOLUME_BONUS.BullFlag \div 2)
              ELSE FlagpolePart = 0
           /\ "flagpole_volume_pattern" \in Facts
                 <=> (GainPassed /\ FlagpoleRatioAbove(1200))
           /\ "moderate_flagpole_volume" \in Facts
                 <=> (GainPassed /\ ~FlagpoleRatioAbove(1200) /\ FlagpoleRatioAbove(1100))

\* a ratio of exactly 1.2 with an odd bonus: the floor of half the bonus
C21_Witness ==
    /\ BullFlagVolumeCall
    /\ GainPassed
    /\ ~FlagpoleRatioAbove(1200) /\ FlagpoleRatioAbove(1100)
    /\ "moderate_flagpole_volume" \in Facts
    /\ FlagpolePart = Pts(cfg.PATTERN_VOLUME_BONUS.BullFlag \div 2)
    /\ 2 * FlagpolePart < BullFlagBonus

\* C22: whenever detect_inside_bar returns a non-zero confidence, the
\* counted inside bar is the latest bar (offset -1), the mother bar is the
\* bar at offset -2 and inside_bars_count is exactly 1: the double branch is
\* not taken and the mother bar offset stays above the aging threshold.
C22_LatestBarOnly ==
    (Called("detect_inside_bar") /\ ret.confidence > 0)
        => /\ QualifiesAt(1)
           /\ CountedOffsets = {-1}
           /\ ScanResult.mother_bar_idx = -2
           /\ Fact("inside_bars_count") = 1
           /\ Fact("inside_bar_high") = BarAt(1).High
           /\ Fact("inside_bar_low") = BarAt(1).Low
           /\ Fact("mother_bar_high") = BarAt(2).High
           /\ Fact("mother_bar_low") = BarAt(2).Low
           /\ "single_inside_bar" \in Facts
           /\ "double_inside_bar" \notin Facts
           /\ ScanResult.mother_bar_idx > AgingThreshold
           /\ "pattern_aging" \notin Facts

\* a scored weekly call whose mother bar is itself strictly inside the green
\* bar before it: still one inside bar, the latest
C22_Witness ==
    /\ Called("detect_inside_bar")
    /\ call.timeframe = "1wk"
    /\ ret.confidence > 0
    /\ N >= 5
    /\ StrictlyInsidePrevious(2) /\ Green(3)
    /\ Fact("inside_bars_count") = 1
    /\ Fact("mother_bar_high") = BarAt(2).High

(***************************************************************************)
(* Well-formed bars and the inside bar through the dispatcher.             *)
(***************************************************************************)
WellFormedBar(b) ==
    b.Low <= b.Close /\ b.Close <= b.High /\ b.Low > 0 /\ b.Open > 0
WellFormed == \A t \in 1..N : WellFormedBar(data[t])
InsideBarBase == IF call.timeframe = "1wk" THEN Pts(35) ELSE Pts(30)
InsideBarDispatched ==
    /\ Called("detect_pattern")
    /\ call.pattern_type = "Inside Bar"
    /\ N >= 10

\* C23: for a series of at least 10 well-formed bars and a volume
\* confirmation ceiling of at least 55, the dispatcher reports Inside Bar as
\* detected exactly when the latest bar is red and strictly inside a green
\* previous bar; every found inside bar has the price_in_range bonus and a
\* size tier of at least 5 points, so it scores at least 75 (daily; the
\* weekly base is 5 higher) before the cap, and at least the smaller of 75
\* and the ceiling after it.
C23_InsideBarDetected ==
    (InsideBarDispatched /\ WellFormed /\ Ceiling >= Pts(55))
        => /\ ret.detected <=> LatestRedInsideGreen
           /\ LatestRedInsideGreen
                 => /\ "price_in_range" \in Facts
                    /\ stages["before_volume"]
                          >= stages["formation"] + Pts(5) + Pts(10)
                    /\ stages["formation"] = InsideBarBase + Pts(15) + Pts(15)
                    /\ stages["before_volume"] >= Pts(75)
                    /\ stages["after_volume"] >= stages["before_volume"]
                    /\ stages["detector"] >= Min2(Pts(75), Ceiling)
                    /\ ret.confidence >= Pts(55)

\* a daily inside bar of more than 70% of its mother bar, without volume
\* confirmation: smallest size tier, capped at the ceiling and detected
C23_Witness ==
    /\ InsideBarDispatched /\ WellFormed /\ Ceiling >= Pts(55)
    /\ call.timeframe = "daily"
    /\ LatestRedInsideGreen
    /\ (data[N].High - data[N].Low) * 10 >= 7 * (data[N - 1].High - data[N - 1].Low)
    /\ "moderate_consolidation" \notin Facts
    /\ "confidence_capped" \in Facts
    /\ ret.confidence = Ceiling
    /\ ret.detected

(***************************************************************************)
(* Stale and soft-rejected results through the dispatcher.                 *)
(***************************************************************************)
StaleResult == Called("detect_pattern") /\ "pattern_stale" \in Facts
SoftRejected ==
    /\ Called("detect_pattern")
    /\ call.pattern_type = "Flat Top Breakout"
    /\ N >= 50
    /\ InitialGainOK
    /\ PullbackBelowMinimum

\* C24: a stale or soft-rejected result is never reported as detected by
\* the dispatcher: a stale Bull Flag returns at most (25+20) x 0.5 = 22.5
\* from the detector and 23.625 after x 1.05, a stale Flat Top at most
\* (25+20+25+15) x 0.5 = 42.5, a Flat Top soft rejection exactly 25; all
\* are below the detection threshold of 55.
C24_StaleNeverDetected ==
    /\ StaleResult
          => /\ ~ret.detected
             /\ call.pattern_type \in {"Bull Flag", "Flat Top Breakout"}
             /\ call.pattern_type = "Bull Flag"
                   => /\ stages["detector"] * 10 <= Pts(225)
                      /\ ret.confidence * 1000 <= Pts(23625)
             /\ call.pattern_type = "Flat Top Breakout"
                   => /\ stages["detector"] * 10 <= Pts(425)
                      /\ ret.confidence = stages["detector"]
    /\ SoftRejected
          => /\ ~ret.detected
             /\ ret.confidence = Pts(25)

\* a stale Bull Flag with a healthy pullback: 22.5 from the detector, 23.625
\* from the dispatcher
C24_Witness ==
    /\ StaleResult
    /\ call.pattern_type = "Bull Flag"
    /\ "healthy_pullback" \in Facts
    /\ stages["detector"] * 10 = Pts(225)
    /\ ret.confidence * 1000 = Pts(23625)
    /\ ~ret.detected

CappedResult ==
    /\ Called("detect_pattern")
    /\ call.pattern_type \in FourPatterns
    /\ "confidence_capped" \in Facts

\* C25: after the dispatcher's rescaling a result carrying confidence_capped
\* is bounded by the volume-confirmation ceiling for Flat Top and Inside Bar,
\* by ceiling x 1.05 for Bull Flag and by ceiling x 1.10 for Cup Handle (and
\* by 100 in every case): the detector's cap comes first, the rescaling
\* after it.
C25_CappedBound ==
    CappedResult
        => /\ stages["detector"] <= Ceiling
           /\ ret.confidence <= Pts(100)
           /\ ret.confidence * 100 <= FactorPct(call.pattern_type) * Ceiling
           /\ call.pattern_type \in {"Flat Top Breakout", "Inside Bar"}
                 => ret.confidence <= Ceiling

\* a capped Bull Flag above the ceiling: ceiling x 1.05
C25_Witness ==
    /\ CappedResult
    /\ call.pattern_type = "Bull Flag"
    /\ stages["detector"] = Ceiling
    /\ ret.confidence > Ceiling
    /\ ret.confidence * 100 = 105 * Ceiling

(***************************************************************************)
(* The windows of detect_cup_handle, lines 457-469 and 485-516.            *)
(***************************************************************************)
CupRejected == ret.confidence = 0 /\ ret.pattern_info = NoInfo
CupRightTooLow == CupRight * 100 < CupStart * 75

\* C26: for every series of at least 30 bars detect_cup_handle computes
\* handle_days in 9..30 and a cup portion of at least 18 bars, so the
\* rejection of a cup portion below 15 bars and the forming_handle branch
\* (handle_days = 0) are never taken: a rejection is one for the cup depth
\* or for the right side of the cup.
C26_CupWindows ==
    (Called("detect_cup_handle") /\ N >= 30)
        => /\ CupWindows(N).handle_days \in 9..30
           /\ CupWindows(N).cup_len >= 18
           /\ CupWindows(N).cup_len + CupWindows(N).handle_days = Min2(100, N - 3)
           /\ "forming_handle" \notin Facts
           /\ CupRejected => CupTooShallow \/ CupTooDeep \/ CupRightTooLow
           /\ ~CupRejected
                 => /\ stages["handle_days"] \in 9..30
                    /\ stages["cup_len"] >= 18

\* the longest handle: a scored cup on MaxCupLen bars, handle_days 30
C26_Witness ==
    /\ Called("detect_cup_handle")
    /\ N = MaxCupLen
    /\ ~CupRejected
    /\ stages["handle_days"] = 30
    /\ stages["cup_len"] = 70
    /\ "long_handle" \in Facts

\* Low <= Close on every bar and positive prices
LowsWellFormed == \A t \in 1..N : data[t].Low <= data[t].Close /\ data[t].Low > 0
FlagToleranceAtMostOne == cfg.PATTERN_THRESHOLDS.BullFlag.flag_tolerance <= 1000

\* C27: in detect_bull_flag, for bars with Low <= Close and positive prices
\* and a flag tolerance of at most 1, the current close is never below
\* flag_low x tolerance (flag_low is the minimum Low of the trailing 15 bars,
\* the current bar among them), so Below flag support is never returned and
\* the only hard rejection is Below flagpole start.
C27_NoBelowFlagSupport ==
    (Called("detect_bull_flag") /\ N >= 30 /\ LowsWellFormed /\ FlagToleranceAtMostOne)
        => /\ AboveFlagSupport
           /\ MinLow(data, N - 14, N) <= data[N].Low
           /\ "pattern_broken" \in Facts
                 => /\ Fact("break_reason") = "Below flagpole start"
                    /\ BelowFlagpoleStart
                    /\ ret.confidence = 0

\* a hard rejection on well-formed bars: below the flagpole start
C27_Witness ==
    /\ Called("detect_bull_flag")
    /\ N >= 30
    /\ LowsWellFormed /\ FlagToleranceAtMostOne
    /\ "pattern_broken" \in Facts
    /\ Fact("break_reason") = "Below flagpole start"
    /\ data[N].Close < data[N].Open

(***************************************************************************)
(* The results list of run_analysis.                                       *)
(***************************************************************************)
LastListed ==
    /\ run.phase \in {"patterns", "done"}
    /\ run.last.outcome = "listed"
MinConfidence == Pts(run.min_confidence)
MultiplierReachesThreshold ==
    FracGE(run.last.volume_multiplier, run.volume_threshold)
\* 0 / 0: the trailing 20 bars have no volume at all
MultiplierIsNaN == run.last.volume_multiplier.den = 0
LastOfResults == run.results[Len(run.results)]

\* C28 as stated: a result is appended to the results list only if the
\* detected flag of detect_pattern (computed before the timing adjustment) is
\* true, the timing-adjusted confidence is at least min_confidence and, when
\* require_volume is on, the fact map's volume_multiplier (0 if absent) is
\* at least the selected threshold; a pattern whose pre-adjustment
\* confidence was below 55 is never listed.
C28_AsStated ==
    LastListed
        => /\ run.last.detected
           /\ run.last.raw >= Pts(55)
           /\ run.last.confidence >= MinConfidence
           /\ run.require_volume => MultiplierReachesThreshold

\* C28, what holds: a result is appended exactly when detected is true, the
\* adjusted confidence is at least min_confidence and, with require_volume
\* on, volume_multiplier is not below the threshold, which a multiplier
\* that is no number (0 / 0) is not either; the appended result is the
\* pattern of the iteration with its adjusted confidence.
C28_Listing ==
    /\ LastListed
          <=> /\ run.phase \in {"patterns", "done"}
              /\ run.last.outcome # "-"
              /\ run.last.detected
              /\ run.last.confidence >= MinConfidence
              /\ run.require_volume
                    => (MultiplierReachesThreshold \/ MultiplierIsNaN)
    /\ LastListed
          => /\ run.last.raw >= Pts(55)
             /\ Len(run.results) >= 1
             /\ LastOfResults.pattern = run.last.pattern
             /\ LastOfResults.confidence = run.last.confidence
    /\ run.phase = "fetch" => run.results = << >>

\* an inside bar on a series without volume, listed with the filter on
C28_Witness ==
    /\ LastListed
    /\ run.require_volume
    /\ MultiplierIsNaN
    /\ run.last.pattern = "Inside Bar"
    /\ run.last.detected
    /\ Len(run.results) >= 1

====
